---- MODULE Spec2Model ----
(***************************************************************************)
(* Team-Planner: the invitation lifecycle and the access-control rules,    *)
(* as implemented twice: by the client DataService over localStorage       *)
(* (src/src/services/dataService.ts) and by the REST routes over Postgres  *)
(* (src/backend/routes/users.js, src/unnamed/part_006, part_008).          *)
(***************************************************************************)
EXTENDS Integers, Sequences, FiniteSets, TLC

VARIABLES
    mode,           \* "client" (localStorage only), "server" (REST + Postgres)
                    \* or "both" (each call put to both)
    now,            \* the wall clock (Date.now() / NOW()), in milliseconds
    lsProjects,     \* localStorage['ai_planner_projects']    (array)
    lsInvitations,  \* localStorage['ai_planner_invitations'] (array)
    lsTasks,        \* localStorage['ai_planner_tasks']       (array)
    dsIds,          \* number of ids generateId() has handed out
    dsRet,          \* outcome of the last DataService call
    projects,       \* table projects
    project_members,\* table project_members
    invitations,    \* table invitations
    tasks,          \* table tasks
    rowIds,         \* per table, the number of ids gen_random_uuid() has handed out
    reqs,           \* HTTP requests in flight
    resp,           \* the response sent by the step just taken (Idle: none)
    users,          \* table users: per user id, the state of its row
    authed          \* requests authenticateToken passed on with next()

dsVars == <<lsProjects, lsInvitations, lsTasks, dsIds, dsRet>>
dbVars == <<projects, project_members, invitations, tasks, rowIds>>
authVars == <<users, authed>>
srvVars == <<projects, project_members, invitations, tasks, rowIds, reqs, resp,
             users, authed>>
vars == <<mode, now, lsProjects, lsInvitations, lsTasks, dsIds, dsRet,
          projects, project_members, invitations, tasks, rowIds, reqs, resp,
          users, authed>>

----------------------------------------------------------------------------
(* Bounds of the model                                                     *)

MaxDsProjects == 1
MaxDsInvitations == 1
MaxDsTasks == 1
MaxWeeks == 1
MaxMillis == 1

(* Program constants                                                       *)

SevenDays == 7 * 24 * 60 * 60 * 1000

Users == {"u1", "u2", "u3"}

emailOf(u) == CASE u = "u1" -> "a@x.com"
                [] u = "u2" -> "b@x.com"
                [] u = "u3" -> "c@x.com"

None == "none"

\* a timestamp column that is null
NoTime == -1

SettingKeys == {"allowMemberTaskEdit", "allowMemberTaskCreate", "allowMemberInvite"}

DefaultSettings ==
    [k \in SettingKeys |-> (k = "allowMemberTaskEdit")]

\* object spread {...base, ...over}
Spread(base, over) ==
    [k \in (DOMAIN base) \cup (DOMAIN over) |->
        IF k \in DOMAIN over THEN over[k] ELSE base[k]]

\* a settings object that grants every permission whatever it holds
FlagAlwaysSet(settings, k) == TRUE

\* settings?.flag on a settings object that may lack the key
Flag(settings, k) == k \in DOMAIN settings /\ settings[k]

----------------------------------------------------------------------------
(* The clock                                                               *)

\* time passes by a millisecond or by the lifetime of an invitation
ClockSteps == {1, SevenDays}

ClockValues == {0} \cup
    {w * SevenDays + m : w \in 1..MaxWeeks, m \in 0..MaxMillis}

Tick(d) ==
    /\ now + d \in ClockValues
    /\ now' = now + d

----------------------------------------------------------------------------
(* Array helpers of the DataService                                        *)

\* Array.prototype.findIndex, 1-based; 0 stands for -1
FindIndex(s, Test(_)) ==
    IF \E i \in 1..Len(s) : Test(s[i])
    THEN CHOOSE i \in 1..Len(s) :
            Test(s[i]) /\ \A j \in 1..(i - 1) : ~Test(s[j])
    ELSE 0

\* Array.prototype.includes
Includes(s, x) == \E i \in 1..Len(s) : s[i] = x

Range(s) == {s[i] : i \in 1..Len(s)}

\* saveToStorage: setItem may throw (quota); the error is logged and dropped
saveToStorage(old, data, writeOk) == IF writeOk THEN data ELSE old

\* generateId: a fresh uuid
generateId == dsIds + 1

MaxDsIds == MaxDsProjects + MaxDsInvitations + MaxDsTasks

\* the call just made: its name, the id and user it was given, its outcome
DsRet(op, id, user, result) ==
    [op |-> op, id |-> id, user |-> user, email |-> None, target |-> None,
     result |-> result]

----------------------------------------------------------------------------
(* DataService: projects                                                   *)

\* what the caller may pass as project.members
MemberInputs(ownerId) == {<<>>, <<ownerId>>}

createProject(ownerId, members, settings, writeOk) ==
    /\ Len(lsProjects) < MaxDsProjects
    /\ dsIds < MaxDsIds
    /\ LET newProject == [projectId |-> generateId,
                          ownerId |-> ownerId,
                          members |-> members,
                          settings |-> Spread(DefaultSettings, settings)]
       IN /\ lsProjects' = saveToStorage(lsProjects,
                                Append(lsProjects, newProject), writeOk)
          /\ dsIds' = dsIds + 1
          /\ dsRet' = DsRet("createProject", newProject.projectId, ownerId, "value")
    /\ UNCHANGED <<lsInvitations, lsTasks>>

\* the null a lookup returns: no stored entity has id 0
NullProject == [projectId |-> 0, ownerId |-> None, members |-> <<>>,
                settings |-> DefaultSettings]

\* getProject as a function of the stored array: the project or null
getProject(projectId, userId) ==
    LET idx == FindIndex(lsProjects, LAMBDA p : p.projectId = projectId)
    IN IF idx = 0 THEN NullProject
       ELSE IF lsProjects[idx].ownerId # userId
               /\ ~Includes(lsProjects[idx].members, userId)
            THEN NullProject
            ELSE lsProjects[idx]


\* a Partial<Project>: the fields named in has are present
NoProjectUpdates == [has |-> {}, ownerId |-> None, members |-> <<>>,
                     settings |-> DefaultSettings]

updateProject(projectId, updates, userId, writeOk) ==
    LET projectIndex == FindIndex(lsProjects, LAMBDA p : p.projectId = projectId)
    IN IF projectIndex = 0
       THEN /\ dsRet' = DsRet("updateProject", projectId, userId, "null")
            /\ UNCHANGED <<lsProjects, lsInvitations, lsTasks, dsIds>>
       ELSE
       LET project == lsProjects[projectIndex]
           updatedProject ==
               [project EXCEPT
                  !.ownerId = IF "ownerId" \in updates.has
                              THEN updates.ownerId ELSE @,
                  !.members = IF "members" \in updates.has
                              THEN updates.members ELSE @,
                  !.settings = IF "settings" \in updates.has
                               THEN updates.settings ELSE @]
       IN IF project.ownerId # userId
          THEN /\ dsRet' = DsRet("updateProject", projectId, userId, "throw:owner")
               /\ UNCHANGED <<lsProjects, lsInvitations, lsTasks, dsIds>>
          ELSE /\ lsProjects' = saveToStorage(lsProjects,
                      [lsProjects EXCEPT ![projectIndex] = updatedProject], writeOk)
               /\ dsRet' = DsRet("updateProject", projectId, userId, "value")
               /\ UNCHANGED <<lsInvitations, lsTasks, dsIds>>

----------------------------------------------------------------------------
(* DataService: invitations                                                *)

\* createdAt is new Date(), expiresAt is a second reading of the clock,
\* Date.now(), taken elapsed milliseconds later, plus seven days
createInvitation(projectId, inviterUserId, inviteeEmail, writeOk, elapsed) ==
    LET project == getProject(projectId, inviterUserId)
        existing == FindIndex(lsInvitations,
                        LAMBDA inv : /\ inv.projectId = projectId
                                     /\ inv.inviteeEmail = inviteeEmail
                                     /\ inv.status = "pending")
        invitation == [invitationId |-> generateId,
                       projectId |-> projectId,
                       inviterUserId |-> inviterUserId,
                       inviteeEmail |-> inviteeEmail,
                       status |-> "pending",
                       createdAt |-> now,
                       expiresAt |-> now + elapsed + SevenDays]
    IN IF project = NullProject
       THEN /\ dsRet' = [DsRet("createInvitation", projectId, inviterUserId,
                               "throw:access") EXCEPT !.email = inviteeEmail]
            /\ UNCHANGED <<lsProjects, lsInvitations, lsTasks, dsIds>>
       ELSE IF project.ownerId # inviterUserId
       THEN /\ dsRet' = [DsRet("createInvitation", projectId, inviterUserId,
                               "throw:owner") EXCEPT !.email = inviteeEmail]
            /\ UNCHANGED <<lsProjects, lsInvitations, lsTasks, dsIds>>
       ELSE IF existing # 0
       THEN /\ dsRet' = [DsRet("createInvitation", projectId, inviterUserId,
                               "throw:duplicate") EXCEPT !.email = inviteeEmail]
            /\ UNCHANGED <<lsProjects, lsInvitations, lsTasks, dsIds>>
       ELSE /\ Len(lsInvitations) < MaxDsInvitations
            /\ dsIds < MaxDsIds
            /\ lsInvitations' = saveToStorage(lsInvitations,
                                    Append(lsInvitations, invitation), writeOk)
            /\ dsIds' = dsIds + 1
            /\ dsRet' = [DsRet("createInvitation", projectId, inviterUserId,
                               "value") EXCEPT !.email = inviteeEmail]
            /\ UNCHANGED <<lsProjects, lsTasks>>

acceptInvitation(invitationId, userId, writeOk1, writeOk2) ==
    LET invitationIndex == FindIndex(lsInvitations,
                              LAMBDA inv : inv.invitationId = invitationId)
    IN IF invitationIndex = 0
       THEN /\ dsRet' = DsRet("acceptInvitation", invitationId, userId, "false")
            /\ UNCHANGED <<lsProjects, lsInvitations, lsTasks, dsIds>>
       ELSE
       LET invitation == lsInvitations[invitationIndex]
           projectIndex == FindIndex(lsProjects,
                              LAMBDA p : p.projectId = invitation.projectId)
       IN IF invitation.status # "pending" \/ invitation.expiresAt <= now
          THEN /\ dsRet' = DsRet("acceptInvitation", invitationId, userId, "false")
               /\ UNCHANGED <<lsProjects, lsInvitations, lsTasks, dsIds>>
          ELSE /\ lsInvitations' = saveToStorage(lsInvitations,
                      [lsInvitations EXCEPT ![invitationIndex].status = "accepted"],
                      writeOk1)
               /\ IF projectIndex # 0
                     /\ ~Includes(lsProjects[projectIndex].members, userId)
                  THEN lsProjects' = saveToStorage(lsProjects,
                          [lsProjects EXCEPT ![projectIndex].members =
                                                Append(@, userId)],
                          writeOk2)
                  ELSE UNCHANGED lsProjects
               /\ dsRet' = DsRet("acceptInvitation", invitationId, userId, "true")
               /\ UNCHANGED <<lsTasks, dsIds>>

rejectInvitation(invitationId, writeOk) ==
    LET invitationIndex == FindIndex(lsInvitations,
                              LAMBDA inv : inv.invitationId = invitationId)
    IN IF invitationIndex = 0
       THEN /\ dsRet' = DsRet("rejectInvitation", invitationId, None, "false")
            /\ UNCHANGED <<lsProjects, lsInvitations, lsTasks, dsIds>>
       ELSE /\ lsInvitations' = saveToStorage(lsInvitations,
                   [lsInvitations EXCEPT ![invitationIndex].status = "rejected"],
                   writeOk)
            /\ dsRet' = DsRet("rejectInvitation", invitationId, None, "true")
            /\ UNCHANGED <<lsProjects, lsTasks, dsIds>>

----------------------------------------------------------------------------
(* DataService: tasks                                                      *)

createTask(projectId, assignee, userId, writeOk) ==
    LET project == getProject(projectId, userId)
        isOwner == project.ownerId = userId
        isMember == Includes(project.members, userId)
        canCreate == isOwner \/ (isMember /\ Flag(project.settings,
                                                  "allowMemberTaskCreate"))
        newTask == [taskId |-> generateId,
                    projectId |-> projectId,
                    assignee |-> assignee,
                    status |-> "pending",
                    completedAt |-> NoTime]
    IN IF project = NullProject
       THEN /\ dsRet' = DsRet("createTask", projectId, userId, "throw:access")
            /\ UNCHANGED <<lsProjects, lsInvitations, lsTasks, dsIds>>
       ELSE IF ~canCreate
       THEN /\ dsRet' = DsRet("createTask", projectId, userId, "throw:permission")
            /\ UNCHANGED <<lsProjects, lsInvitations, lsTasks, dsIds>>
       ELSE /\ Len(lsTasks) < MaxDsTasks
            /\ dsIds < MaxDsIds
            /\ lsTasks' = saveToStorage(lsTasks, Append(lsTasks, newTask), writeOk)
            /\ dsIds' = dsIds + 1
            /\ dsRet' = DsRet("createTask", newTask.taskId, userId, "value")
            /\ UNCHANGED <<lsProjects, lsInvitations>>

\* getTasksByProject: the tasks returned, [] without access
getTasksByProject(projectId, userId) ==
    IF getProject(projectId, userId) = NullProject THEN <<>>
    ELSE SelectSeq(lsTasks, LAMBDA t : t.projectId = projectId)

\* getTask: does the call return the task (TRUE) or null (FALSE)
getTask(taskId, userId) ==
    LET idx == FindIndex(lsTasks, LAMBDA t : t.taskId = taskId)
    IN IF idx = 0 THEN FALSE
       ELSE getProject(lsTasks[idx].projectId, userId) # NullProject

\* a Partial<Task>: the fields named in has are present
NoTaskUpdates == [has |-> {}, status |-> "pending", assignee |-> None,
                  taskId |-> 0, projectId |-> 0]

updateTask(taskId, updates, userId, writeOk) ==
    LET taskIndex == FindIndex(lsTasks, LAMBDA t : t.taskId = taskId)
    IN IF taskIndex = 0
       THEN /\ dsRet' = DsRet("updateTask", taskId, userId, "null")
            /\ UNCHANGED <<lsProjects, lsInvitations, lsTasks, dsIds>>
       ELSE
       LET task == lsTasks[taskIndex]
           project == getProject(task.projectId, userId)
           isOwner == project.ownerId = userId
           isAssignee == task.assignee = userId
           canEdit == isOwner \/ (isAssignee /\ Flag(project.settings,
                                                     "allowMemberTaskEdit"))
           spread == [task EXCEPT
                        !.taskId = IF "taskId" \in updates.has
                                   THEN updates.taskId ELSE @,
                        !.projectId = IF "projectId" \in updates.has
                                      THEN updates.projectId ELSE @,
                        !.status = IF "status" \in updates.has
                                   THEN updates.status ELSE @,
                        !.assignee = IF "assignee" \in updates.has
                                     THEN updates.assignee ELSE @]
           updatedTask == IF "status" \in updates.has
                             /\ updates.status = "completed"
                             /\ task.status # "completed"
                          THEN [spread EXCEPT !.completedAt = now]
                          ELSE spread
       IN IF project = NullProject
          THEN /\ dsRet' = DsRet("updateTask", taskId, userId, "throw:access")
               /\ UNCHANGED <<lsProjects, lsInvitations, lsTasks, dsIds>>
          ELSE IF ~canEdit
          THEN /\ dsRet' = DsRet("updateTask", taskId, userId, "throw:permission")
               /\ UNCHANGED <<lsProjects, lsInvitations, lsTasks, dsIds>>
          ELSE /\ lsTasks' = saveToStorage(lsTasks,
                      [lsTasks EXCEPT ![taskIndex] = updatedTask], writeOk)
               /\ dsRet' = DsRet("updateTask", taskId, userId, "value")
               /\ UNCHANGED <<lsProjects, lsInvitations, dsIds>>

\* Array.prototype.splice(i, 1)
Splice(s, i) == SubSeq(s, 1, i - 1) \o SubSeq(s, i + 1, Len(s))

deleteTask(taskId, userId, writeOk) ==
    LET taskIndex == FindIndex(lsTasks, LAMBDA t : t.taskId = taskId)
    IN IF taskIndex = 0
       THEN /\ dsRet' = DsRet("deleteTask", taskId, userId, "false")
            /\ UNCHANGED <<lsProjects, lsInvitations, lsTasks, dsIds>>
       ELSE
       LET project == getProject(lsTasks[taskIndex].projectId, userId)
       IN IF project = NullProject
          THEN /\ dsRet' = DsRet("deleteTask", taskId, userId, "false")
               /\ UNCHANGED <<lsProjects, lsInvitations, lsTasks, dsIds>>
          ELSE IF project.ownerId # userId
          THEN /\ dsRet' = DsRet("deleteTask", taskId, userId, "throw:owner")
               /\ UNCHANGED <<lsProjects, lsInvitations, lsTasks, dsIds>>
          ELSE /\ lsTasks' = saveToStorage(lsTasks, Splice(lsTasks, taskIndex),
                                           writeOk)
               /\ dsRet' = DsRet("deleteTask", taskId, userId, "true")
               /\ UNCHANGED <<lsProjects, lsInvitations, dsIds>>

----------------------------------------------------------------------------
(* DataService: member management                                          *)

removeMember(projectId, memberUserId, currentUserId, writeOk) ==
    LET project == getProject(projectId, currentUserId)
        projectIndex == FindIndex(lsProjects, LAMBDA p : p.projectId = projectId)
    IN IF project = NullProject
       THEN /\ dsRet' = [DsRet("removeMember", projectId, currentUserId,
                              "false") EXCEPT !.target = memberUserId]
            /\ UNCHANGED <<lsProjects, lsInvitations, lsTasks, dsIds>>
       ELSE IF project.ownerId # currentUserId
       THEN /\ dsRet' = [DsRet("removeMember", projectId, currentUserId,
                              "throw:owner") EXCEPT !.target = memberUserId]
            /\ UNCHANGED <<lsProjects, lsInvitations, lsTasks, dsIds>>
       ELSE IF memberUserId = project.ownerId
       THEN /\ dsRet' = [DsRet("removeMember", projectId, currentUserId,
                              "throw:removeOwner") EXCEPT !.target = memberUserId]
            /\ UNCHANGED <<lsProjects, lsInvitations, lsTasks, dsIds>>
       ELSE IF projectIndex # 0
       THEN /\ lsProjects' = saveToStorage(lsProjects,
                   [lsProjects EXCEPT ![projectIndex].members =
                        SelectSeq(@, LAMBDA memberId : memberId # memberUserId)],
                   writeOk)
            /\ dsRet' = [DsRet("removeMember", projectId, currentUserId,
                              "true") EXCEPT !.target = memberUserId]
            /\ UNCHANGED <<lsInvitations, lsTasks, dsIds>>
       ELSE /\ dsRet' = [DsRet("removeMember", projectId, currentUserId,
                              "false") EXCEPT !.target = memberUserId]
            /\ UNCHANGED <<lsProjects, lsInvitations, lsTasks, dsIds>>

----------------------------------------------------------------------------
(* The server: tables (src/unnamed/part_008) and SQL helpers               *)

\* String.prototype.toLowerCase on the addresses of the model
toLowerCase(e) == CASE e = "B@x.com" -> "b@x.com"
                    [] OTHER -> e

ProjectRow(p) == CHOOSE row \in projects : row.id = p

ProjectExists(p) == \E row \in projects : row.id = p

\* rows of project_members for (project, user)
MemberRows(p, u) == {row \in project_members : row.project_id = p /\ row.user_id = u}

InvitationRow(i) == CHOOSE row \in invitations : row.id = i

\* UPDATE invitations SET status = st WHERE id = i
SetInvitationStatus(i, st) ==
    {IF row.id = i THEN [row EXCEPT !.status = st] ELSE row : row \in invitations}

\* gen_random_uuid(): an id no row of the table has
NewId(table) == rowIds[table] + 1

\* project_members.id is referenced nowhere: any id no present row has will do
NewMemberId == IF project_members = {} THEN 1
               ELSE 1 + CHOOSE n \in {row.id : row \in project_members} :
                            \A row \in project_members : row.id <= n

----------------------------------------------------------------------------
(* Requests in flight.  A handler awaits each query, so requests            *)
(* interleave between queries; pc names the next query of the request.     *)

MaxReqs == 2

Slots == 1..MaxReqs

\* a field the JSON body of a request does not carry
Undefined == "undefined"

NoBody == [status |-> Undefined, assigneeId |-> Undefined]

Idle == [kind |-> "idle", pc |-> "idle", user |-> None, inv |-> 0,
         project |-> 0, email |-> None, target |-> None,
         task |-> 0, body |-> NoBody, seen |-> None,
         settings |-> DefaultSettings, token |-> None,
         ins |-> FALSE, upd |-> FALSE, status |-> 0]

\* the slot serves no request
Free(r) == reqs[r].pc = "idle"

\* res.status(code).json(...): the request is answered
Answer(q, code) == [q EXCEPT !.pc = "done", !.status = code]

\* request q in slot r moves on to query pc
Continue(r, q, pc) ==
    /\ reqs' = [reqs EXCEPT ![r] = [q EXCEPT !.pc = pc]]
    /\ resp' = Idle

\* request q in slot r is answered with code; the slot is free again
Finish(r, q, code) ==
    /\ reqs' = [reqs EXCEPT ![r] = Idle]
    /\ resp' = Answer(q, code)

----------------------------------------------------------------------------
(* POST /projects (src/unnamed/part_006)                                   *)

MaxProjects == 1

\* createProjectSchema applied to the settings of the body
createProjectSchema(settings) == Spread(DefaultSettings, settings)

PostProjects(u, settings) ==
    /\ Cardinality(projects) < MaxProjects
    /\ LET project == [id |-> NewId("projects"), owner_id |-> u,
                       settings |-> createProjectSchema(settings)]
           member == [id |-> NewMemberId, project_id |-> project.id, user_id |-> u]
       IN /\ projects' = projects \cup {project}
          /\ project_members' = project_members \cup {member}
          /\ rowIds' = [rowIds EXCEPT !["projects"] = @ + 1]
          /\ resp' = Answer([Idle EXCEPT !.kind = "postProjects", !.user = u,
                                         !.project = project.id], 201)
    /\ UNCHANGED <<invitations, tasks, reqs>>

\* a query that selects by id alone
GetProjectById(p, u) == \E row \in projects : row.id = p

\* GET /projects/:id: does the query return the project row to the caller
GetProject(p, u) ==
    \E row \in projects :
        /\ row.id = p
        /\ (row.owner_id = u \/ MemberRows(p, u) # {})

\* GET /tasks/project/:projectId: does the access query return a row
GetProjectTasks(p, u) ==
    \E row \in projects :
        /\ row.id = p
        /\ (row.owner_id = u \/ \E pm \in project_members :
                                    pm.project_id = row.id /\ pm.user_id = u)

\* GET /projects/:id: one query, then 404 or the project
GetProjectRoute(p, u) ==
    /\ resp' = Answer([Idle EXCEPT !.kind = "getProject", !.user = u,
                                   !.project = p],
                      IF GetProject(p, u) THEN 200 ELSE 404)
    /\ UNCHANGED <<dbVars, reqs>>

\* GET /tasks/project/:projectId: the access query, then 403 or the tasks
GetProjectTasksRoute(p, u) ==
    /\ resp' = Answer([Idle EXCEPT !.kind = "getProjectTasks", !.user = u,
                                   !.project = p],
                      IF GetProjectTasks(p, u) THEN 200 ELSE 403)
    /\ UNCHANGED <<dbVars, reqs>>

\* PUT /projects/:id: updateProjectSchema passes a settings object as sent;
\* ownerCheckQuery
PutProjectOwnerCheck(r, u, p, settings) ==
    /\ Free(r)
    /\ LET q == [Idle EXCEPT !.kind = "putProject", !.user = u, !.project = p,
                             !.settings = settings]
           ownerCheck == {row \in projects : row.id = p /\ row.owner_id = u}
       IN IF ownerCheck = {} THEN Finish(r, q, 403)
          ELSE Continue(r, q, "update")
    /\ UNCHANGED dbVars

\* PUT /projects/:id: updateQuery
PutProjectUpdate(r) ==
    /\ reqs[r].kind = "putProject" /\ reqs[r].pc = "update"
    /\ projects' = {IF row.id = reqs[r].project
                    THEN [row EXCEPT !.settings = reqs[r].settings]
                    ELSE row : row \in projects}
    /\ Finish(r, reqs[r], 200)
    /\ UNCHANGED <<project_members, invitations, tasks, rowIds>>

\* DELETE /projects/:id/members/:userId
DeleteMember(r, p, userId, u) ==
    LET ownerCheck == {row \in projects : row.id = p /\ row.owner_id = u}
        q == [Idle EXCEPT !.kind = "deleteMember", !.user = u, !.project = p,
                          !.target = userId]
    IN /\ Free(r)
       /\ IF ownerCheck = {}
          THEN /\ Finish(r, q, 403)
               /\ UNCHANGED project_members
          ELSE IF userId = u
          THEN /\ Finish(r, q, 400)
               /\ UNCHANGED project_members
          ELSE IF MemberRows(p, userId) = {}
          THEN /\ Finish(r, q, 404)
               /\ UNCHANGED project_members
          ELSE /\ project_members' = project_members \ MemberRows(p, userId)
               /\ Finish(r, q, 200)
       /\ UNCHANGED <<projects, invitations, tasks, rowIds>>

----------------------------------------------------------------------------
(* POST /invitations (src/backend/routes/users.js 118-276)                 *)

MaxInvitations == 2

\* request accepted, validated, and the project query answered
InvProjectQuery(r, u, p, emailInput) ==
    /\ Free(r)
    /\ LET q == [Idle EXCEPT !.kind = "invite", !.user = u, !.project = p,
                             !.email = toLowerCase(emailInput)]
           isOwner == ProjectRow(p).owner_id = u
           isMember == MemberRows(p, u) # {}
           canInvite == isOwner \/ (isMember /\ Flag(ProjectRow(p).settings,
                                                     "allowMemberInvite"))
       IN IF ~ProjectExists(p) THEN Finish(r, q, 404)
          ELSE IF ~canInvite THEN Finish(r, q, 403)
          ELSE Continue(r, q, "memberCheck")
    /\ UNCHANGED dbVars

\* existingMemberQuery
InvMemberCheck(r) ==
    /\ reqs[r].kind = "invite" /\ reqs[r].pc = "memberCheck"
    /\ LET q == reqs[r]
           existingMember == {pm \in project_members :
                                /\ pm.project_id = q.project
                                /\ emailOf(pm.user_id) = q.email}
       IN IF existingMember # {} THEN Finish(r, q, 409)
          ELSE Continue(r, q, "pendingCheck")
    /\ UNCHANGED dbVars

\* existingInvitationQuery
InvPendingCheck(r) ==
    /\ reqs[r].kind = "invite" /\ reqs[r].pc = "pendingCheck"
    /\ LET q == reqs[r]
           existingInvitation == {row \in invitations :
                                    /\ row.project_id = q.project
                                    /\ row.invitee_email = q.email
                                    /\ row.status = "pending"
                                    /\ row.expires_at > now}
       IN IF existingInvitation # {} THEN Finish(r, q, 409)
          ELSE Continue(r, q, "insert")
    /\ UNCHANGED dbVars

\* insertInvitationQuery
\* expiresAt is Date.now() of the server process plus seven days;
\* created_at is the column default NOW() of the database, evaluated
\* elapsed milliseconds later when the INSERT runs
InvInsert(r, elapsed) ==
    /\ reqs[r].kind = "invite" /\ reqs[r].pc = "insert"
    /\ Cardinality(invitations) < MaxInvitations
    /\ LET q == reqs[r]
           invitation == [id |-> NewId("invitations"),
                          project_id |-> q.project,
                          inviter_id |-> q.user,
                          invitee_email |-> q.email,
                          status |-> "pending",
                          expires_at |-> now + SevenDays,
                          created_at |-> now + elapsed]
       IN IF ~ProjectExists(q.project)
          THEN /\ Finish(r, q, 500)
               /\ UNCHANGED <<invitations, rowIds>>
          ELSE /\ invitations' = invitations \cup {invitation}
               /\ rowIds' = [rowIds EXCEPT !["invitations"] = @ + 1]
               /\ Continue(r, [q EXCEPT !.inv = invitation.id], "mail")
    /\ UNCHANGED <<projects, project_members, tasks>>

\* transporter.sendMail: the mail is sent, or sending throws
InvSendMail(r, sent) ==
    /\ reqs[r].kind = "invite" /\ reqs[r].pc = "mail"
    /\ Finish(r, reqs[r], IF sent THEN 201 ELSE 500)
    /\ UNCHANGED dbVars

----------------------------------------------------------------------------
(* POST /invitations/:id/accept (users.js 384-472)                         *)

\* an open transaction of another request holds the lock the statement needs
MemberKeyLocked(r, p, u) ==
    \E o \in Slots \ {r} : /\ reqs[o].kind = "accept"
                           /\ reqs[o].ins
                           /\ reqs[o].project = p
                           /\ reqs[o].user = u

InvitationRowLocked(r, i) ==
    \E o \in Slots \ {r} : /\ reqs[o].kind = "accept"
                           /\ reqs[o].upd
                           /\ reqs[o].inv = i

\* the clause that drops expiry from the lookup
NoExpiryClause(row) == TRUE

\* AND i.expires_at > NOW()
NotExpired(row) == row.expires_at > now

\* invitationQuery and the e-mail comparison that follows it
AcceptLookup(r, u, i) ==
    /\ Free(r)
    /\ LET q == [Idle EXCEPT !.kind = "accept", !.user = u, !.inv = i]
           found == {row \in invitations :
                        /\ row.id = i
                        /\ ProjectExists(row.project_id)
                        /\ row.status = "pending"
                        /\ NotExpired(row)}
       IN IF found = {} THEN Finish(r, q, 404)
          ELSE IF InvitationRow(i).invitee_email # emailOf(u)
          THEN Finish(r, q, 403)
          ELSE Continue(r, [q EXCEPT !.project = InvitationRow(i).project_id,
                                     !.email = InvitationRow(i).invitee_email],
                        "memberCheck")
    /\ UNCHANGED dbVars

\* memberCheckQuery
AcceptMemberCheck(r) ==
    /\ reqs[r].kind = "accept" /\ reqs[r].pc = "memberCheck"
    /\ Continue(r, reqs[r],
                IF MemberRows(reqs[r].project, reqs[r].user) # {}
                THEN "updateOnly" ELSE "insert")
    /\ UNCHANGED dbVars

\* already a member: the status update alone, outside any transaction
AcceptUpdateOnly(r, dbOk) ==
    /\ reqs[r].kind = "accept" /\ reqs[r].pc = "updateOnly"
    /\ ~InvitationRowLocked(r, reqs[r].inv)
    /\ IF dbOk
       THEN /\ invitations' = SetInvitationStatus(reqs[r].inv, "accepted")
            /\ Finish(r, reqs[r], 200)
       ELSE /\ UNCHANGED invitations
            /\ Finish(r, reqs[r], 500)
    /\ UNCHANGED <<projects, project_members, tasks, rowIds>>

\* a table without the constraint
NoUniqueConstraint(p, u) == FALSE

\* UNIQUE(project_id, user_id) of project_members rejects the insert
UniqueViolation(p, u) == MemberRows(p, u) # {}

\* BEGIN; INSERT INTO project_members: held by the transaction until COMMIT
AcceptInsert(r, dbOk) ==
    /\ reqs[r].kind = "accept" /\ reqs[r].pc = "insert"
    /\ ~MemberKeyLocked(r, reqs[r].project, reqs[r].user)
    /\ LET q == reqs[r]
           uniqueViolation == UniqueViolation(q.project, q.user)
           fkViolation == ~ProjectExists(q.project)
       IN IF uniqueViolation \/ fkViolation \/ ~dbOk
          THEN Continue(r, q, "rollback")
          ELSE Continue(r, [q EXCEPT !.ins = TRUE], "update")
    /\ UNCHANGED dbVars

\* UPDATE invitations SET status = 'accepted': held until COMMIT
AcceptUpdate(r, dbOk) ==
    /\ reqs[r].kind = "accept" /\ reqs[r].pc = "update"
    /\ ~InvitationRowLocked(r, reqs[r].inv)
    /\ IF dbOk THEN Continue(r, [reqs[r] EXCEPT !.upd = TRUE], "commit")
       ELSE Continue(r, reqs[r], "rollback")
    /\ UNCHANGED dbVars

\* the writes of transaction q become visible to the other connections
ApplyWrites(q, ins, upd) ==
    /\ IF ins
       THEN project_members' = project_members \cup
                   {[id |-> NewMemberId, project_id |-> q.project,
                     user_id |-> q.user]}
       ELSE UNCHANGED project_members
    /\ IF upd
       THEN invitations' = SetInvitationStatus(q.inv, "accepted")
       ELSE UNCHANGED invitations

\* COMMIT: the writes are applied together, or the statement throws
AcceptCommit(r, dbOk) ==
    /\ reqs[r].kind = "accept" /\ reqs[r].pc = "commit"
    /\ IF dbOk
       THEN /\ ApplyWrites(reqs[r], reqs[r].ins, reqs[r].upd)
            /\ Finish(r, reqs[r], 200)
       ELSE /\ Continue(r, reqs[r], "rollback")
            /\ UNCHANGED <<project_members, invitations>>
    /\ UNCHANGED <<projects, tasks, rowIds>>

\* statements run in autocommit: each write is kept as soon as it is made
KeptWithoutBegin(q) == [ins |-> q.ins, upd |-> q.upd]

\* which writes of the transaction outlive ROLLBACK: none, it began with BEGIN
KeptByRollback(q) == [ins |-> FALSE, upd |-> FALSE]

\* catch: ROLLBACK, rethrow, 500
AcceptRollback(r) ==
    /\ reqs[r].kind = "accept" /\ reqs[r].pc = "rollback"
    /\ ApplyWrites(reqs[r], KeptByRollback(reqs[r]).ins, KeptByRollback(reqs[r]).upd)
    /\ Finish(r, reqs[r], 500)
    /\ UNCHANGED <<projects, tasks, rowIds>>

----------------------------------------------------------------------------
(* POST /invitations/:id/reject (users.js 475-507)                         *)

PostReject(r, u, i) ==
    LET hit == {row \in invitations : /\ row.id = i
                                      /\ row.invitee_email = emailOf(u)
                                      /\ row.status = "pending"}
        q == [Idle EXCEPT !.kind = "reject", !.user = u, !.inv = i]
    IN /\ Free(r)
       /\ hit = {} \/ ~InvitationRowLocked(r, i)
       /\ IF hit = {}
          THEN /\ Finish(r, q, 404)
               /\ UNCHANGED invitations
          ELSE /\ invitations' = SetInvitationStatus(i, "rejected")
               /\ Finish(r, q, 200)
       /\ UNCHANGED <<projects, project_members, tasks, rowIds>>

----------------------------------------------------------------------------
(* POST /tasks and PUT /tasks/:id (users.js 583-753)                       *)

MaxTasks == 1

TaskRow(t) == CHOOSE row \in tasks : row.id = t

\* POST /tasks: permissionQuery
PostTaskPermissionQuery(r, u, p, assigneeId) ==
    /\ Free(r)
    /\ LET q == [Idle EXCEPT !.kind = "postTask", !.user = u, !.project = p,
                             !.target = assigneeId]
           isOwner == ProjectRow(p).owner_id = u
           isMember == MemberRows(p, u) # {}
           canCreate == isOwner \/ (isMember /\ Flag(ProjectRow(p).settings,
                                                     "allowMemberTaskCreate"))
       IN IF ~ProjectExists(p) THEN Finish(r, q, 404)
          ELSE IF ~canCreate THEN Finish(r, q, 403)
          ELSE Continue(r, q, "insert")
    /\ UNCHANGED dbVars

\* POST /tasks: insertQuery
PostTaskInsert(r) ==
    /\ reqs[r].kind = "postTask" /\ reqs[r].pc = "insert"
    /\ rowIds["tasks"] < MaxTasks
    /\ LET q == reqs[r]
           task == [id |-> NewId("tasks"),
                    project_id |-> q.project,
                    assignee_id |-> q.target,
                    status |-> "pending",
                    completed_at |-> NoTime]
       IN IF ~ProjectExists(q.project)
          THEN /\ Finish(r, q, 500)
               /\ UNCHANGED <<tasks, rowIds>>
          ELSE /\ tasks' = tasks \cup {task}
               /\ rowIds' = [rowIds EXCEPT !["tasks"] = @ + 1]
               /\ Finish(r, [q EXCEPT !.task = task.id], 201)
    /\ UNCHANGED <<projects, project_members, invitations>>

\* the permission PUT /tasks/:id computes from the row of taskQuery
canEdit(task, u) ==
    LET isOwner == ProjectRow(task.project_id).owner_id = u
        isAssignee == task.assignee_id = u
        isMember == MemberRows(task.project_id, u) # {}
    IN isOwner \/ isAssignee
          \/ (isMember /\ Flag(ProjectRow(task.project_id).settings,
                               "allowMemberTaskEdit"))

\* PUT /tasks/:id: taskQuery, the permission check, the field list
PutTaskQuery(r, u, t, body) ==
    /\ Free(r)
    /\ LET q == [Idle EXCEPT !.kind = "putTask", !.user = u, !.task = t,
                             !.body = body]
           found == {row \in tasks : row.id = t /\ ProjectExists(row.project_id)}
       IN IF found = {} THEN Finish(r, q, 404)
          ELSE IF ~canEdit(TaskRow(t), u) THEN Finish(r, q, 403)
          ELSE IF body = NoBody THEN Finish(r, q, 400)
          ELSE Continue(r, [q EXCEPT !.project = TaskRow(t).project_id,
                                     !.seen = TaskRow(t).status], "update")
    /\ UNCHANGED dbVars

\* PUT /tasks/:id: updateQuery
PutTaskUpdate(r) ==
    /\ reqs[r].kind = "putTask" /\ reqs[r].pc = "update"
    /\ LET q == reqs[r]
           set(row) ==
               [row EXCEPT
                  !.status = IF q.body.status # Undefined
                             THEN q.body.status ELSE @,
                  !.assignee_id = IF q.body.assigneeId # Undefined
                                  THEN q.body.assigneeId ELSE @,
                  !.completed_at = IF q.body.status = "completed"
                                      /\ q.seen # "completed"
                                   THEN now ELSE @]
       IN /\ tasks' = {IF row.id = q.task THEN set(row) ELSE row : row \in tasks}
          /\ Finish(r, q, 200)
    /\ UNCHANGED <<projects, project_members, invitations, rowIds>>

\* the task looked up by id alone
TaskQueryWithoutOwner(u, t) == {row \in tasks : row.id = t}

\* DELETE /tasks/:id: the rows of ownerQuery, tasks joined with projects
\* WHERE t.id = $1 AND p.owner_id = $2
ownerQuery(u, t) ==
    {row \in tasks : /\ row.id = t
                     /\ \E pr \in projects : /\ pr.id = row.project_id
                                             /\ pr.owner_id = u}

\* DELETE /tasks/:id: ownerQuery
DeleteTaskOwnerQuery(r, u, t) ==
    /\ Free(r)
    /\ LET q == [Idle EXCEPT !.kind = "deleteTask", !.user = u, !.task = t]
           ownerCheck == ownerQuery(u, t)
       IN IF ownerCheck = {} THEN Finish(r, q, 403)
          ELSE Continue(r, q, "delete")
    /\ UNCHANGED dbVars

\* DELETE /tasks/:id: DELETE FROM tasks WHERE id = $1
DeleteTaskDelete(r) ==
    /\ reqs[r].kind = "deleteTask" /\ reqs[r].pc = "delete"
    /\ tasks' = {row \in tasks : row.id # reqs[r].task}
    /\ Finish(r, reqs[r], 200)
    /\ UNCHANGED <<projects, project_members, invitations, rowIds>>

----------------------------------------------------------------------------
(* authenticateToken (src/unnamed/part_006 68-117), installed by every     *)
(* router with router.use, and the users table                             *)

MaxAuthed == 1

\* what the Authorization header of a request carries: nothing, a token
\* jwt.verify throws on, or a token signed for a user id
NoToken == "none"

BadTokens == {"invalid", "expired"}

Tokens == {NoToken} \cup BadTokens \cup Users

\* a lookup of the user row by id alone
UserQueryById(userId) == {u \in Users : u = userId /\ users[u] # "deleted"}

\* userQuery: SELECT ... FROM users WHERE id = $1 AND is_active = true
userQuery(userId) == {u \in Users : u = userId /\ users[u] = "active"}

\* the middleware: 401, or next() with req.user set; id is the :id of the
\* request's path
authenticateToken(token, route, id) ==
    LET q == [Idle EXCEPT !.kind = route, !.token = token, !.inv = id]
    IN /\ Cardinality(authed) < MaxAuthed
       /\ IF token = NoToken \/ token \in BadTokens
          THEN /\ resp' = Answer(q, 401)
               /\ UNCHANGED authed
          ELSE IF userQuery(token) = {}
          THEN /\ resp' = Answer([q EXCEPT !.user = token], 401)
               /\ UNCHANGED authed
          ELSE /\ authed' = authed \cup {[route |-> route, user |-> token,
                                          id |-> id]}
               /\ resp' = Idle
       /\ UNCHANGED <<dbVars, reqs, users>>

\* GET /invitations/:id, registered after router.use(authenticateToken)
GetInvitationRoute(u, i) ==
    LET result == {row \in invitations :
                      /\ row.id = i
                      /\ ProjectExists(row.project_id)
                      /\ users[row.inviter_id] # "deleted"}
        q == [Idle EXCEPT !.kind = "getInvitation", !.user = u, !.inv = i]
    IN /\ resp' = Answer(q, IF result = {} THEN 404
                            ELSE IF InvitationRow(i).expires_at <= now THEN 410
                            ELSE IF InvitationRow(i).status # "pending" THEN 410
                            ELSE 200)
       /\ UNCHANGED <<dbVars, reqs>>

\* is_active of a users row is set to false
DeactivateUser(u) ==
    /\ users[u] = "active"
    /\ users' = [users EXCEPT ![u] = "inactive"]
    /\ UNCHANGED <<dbVars, reqs, authed>>
    /\ resp' = Idle

\* a users row is deleted; the foreign keys of part_008 cascade
DeleteUser(u) ==
    /\ users[u] # "deleted"
    /\ users' = [users EXCEPT ![u] = "deleted"]
    /\ LET gone == {row.id : row \in {pr \in projects : pr.owner_id = u}}
       IN /\ projects' = {row \in projects : row.id \notin gone}
          /\ project_members' = {row \in project_members :
                                    row.project_id \notin gone /\ row.user_id # u}
          /\ invitations' = {row \in invitations :
                                row.project_id \notin gone /\ row.inviter_id # u}
          /\ tasks' = {IF row.assignee_id = u
                       THEN [row EXCEPT !.assignee_id = None] ELSE row :
                       row \in {t \in tasks : t.project_id \notin gone}}
    /\ UNCHANGED <<rowIds, reqs, authed>>
    /\ resp' = Idle

----------------------------------------------------------------------------
(* The server under concurrent requests                                    *)

\* the users who create projects
Creators == {"u1"}

\* e-mail addresses a caller may type
EmailInputs == {"b@x.com", "B@x.com"}

\* ids a caller may name: those of stored rows, and 0 for an id of no row
ProjectIds == {row.id : row \in projects} \cup {0}

InvitationIds == {row.id : row \in invitations} \cup {0}

Tables == {"projects", "invitations", "tasks"}

InitServer ==
    /\ mode = "server"
    /\ now = 0
    /\ lsProjects = <<>>
    /\ lsInvitations = <<>>
    /\ lsTasks = <<>>
    /\ dsIds = 0
    /\ dsRet = DsRet("none", 0, None, "none")
    /\ projects = {}
    /\ project_members = {}
    /\ invitations = {}
    /\ tasks = {}
    /\ rowIds = [t \in Tables |-> 0]
    /\ reqs = [r \in Slots |-> Idle]
    /\ resp = Idle
    /\ users = [u \in Users |-> "active"]
    /\ authed = {}

\* no request is in flight
Quiet == \A r \in Slots : reqs[r].pc = "idle"

\* no request of this kind is in flight
NoneInFlight(kind) == \A r \in Slots : reqs[r].kind # kind

SrvTick ==
    /\ mode = "server"
    /\ \E d \in ClockSteps : Tick(d)
    /\ resp' = Idle
    /\ UNCHANGED <<mode, dsVars, dbVars, reqs, authVars>>

(* Acceptance races: accept, reject and member removal overlap; an         *)
(* invitation is sent by the owner while nothing else is in flight.        *)

AccPostProjects ==
    /\ Quiet
    /\ \E u \in Creators : PostProjects(u, <<>>)
    /\ mode = "server"
    /\ UNCHANGED <<mode, now, dsVars, authVars>>

AccInvite ==
    /\ \E r \in Slots :
          \/ (Quiet /\ \E u \in Creators, p \in ProjectIds \ {0} :
                          InvProjectQuery(r, u, p, "b@x.com"))
          \/ InvMemberCheck(r)
          \/ InvPendingCheck(r)
          \/ InvInsert(r, 0)
          \/ InvSendMail(r, TRUE)
    /\ mode = "server"
    /\ UNCHANGED <<mode, now, dsVars, authVars>>

AccAccept ==
    /\ \E r \in Slots :
          \/ (NoneInFlight("invite") /\
                \E u \in Users, i \in InvitationIds : AcceptLookup(r, u, i))
          \/ AcceptMemberCheck(r)
          \/ \E dbOk \in BOOLEAN : AcceptUpdateOnly(r, dbOk)
          \/ \E dbOk \in BOOLEAN : AcceptInsert(r, dbOk)
          \/ \E dbOk \in BOOLEAN : AcceptUpdate(r, dbOk)
          \/ \E dbOk \in BOOLEAN : AcceptCommit(r, dbOk)
          \/ AcceptRollback(r)
    /\ mode = "server"
    /\ UNCHANGED <<mode, now, dsVars, authVars>>

AccReject ==
    /\ NoneInFlight("invite")
    /\ \E r \in Slots, u \in Users, i \in InvitationIds : PostReject(r, u, i)
    /\ mode = "server"
    /\ UNCHANGED <<mode, now, dsVars, authVars>>

AccDeleteMember ==
    /\ NoneInFlight("invite")
    /\ \E r \in Slots, p \in ProjectIds \ {0}, t \in Users, u \in Users :
          DeleteMember(r, p, t, u)
    /\ mode = "server"
    /\ UNCHANGED <<mode, now, dsVars, authVars>>

NextAccept ==
    \/ SrvTick
    \/ AccPostProjects
    \/ AccInvite
    \/ AccAccept
    \/ AccReject
    \/ AccDeleteMember

SpecAccept == InitServer /\ [][NextAccept]_vars

----------------------------------------------------------------------------
(* The DataService in one browser tab                                      *)

\* the ids a caller may pass: those of stored objects, and 0 for an unknown id
DsProjectIds == {lsProjects[k].projectId : k \in 1..Len(lsProjects)} \cup {0}

DsInvitationIds ==
    {lsInvitations[k].invitationId : k \in 1..Len(lsInvitations)} \cup {0}

\* e-mail addresses a caller may type
DsEmails == {"b@x.com"}

\* settings a caller may pass to createProject
DsSettingInputs == {<<>>}

\* the assignee a caller may pass to createTask
DsAssignees == {None}

\* the users who create projects
DsCreators == {"u1"}

InitClient ==
    /\ mode = "client"
    /\ now = 0
    /\ lsProjects = <<>>
    /\ lsInvitations = <<>>
    /\ lsTasks = <<>>
    /\ dsIds = 0
    /\ dsRet = DsRet("none", 0, None, "none")
    /\ projects = {}
    /\ project_members = {}
    /\ invitations = {}
    /\ tasks = {}
    /\ rowIds = [t \in Tables |-> 0]
    /\ reqs = [r \in Slots |-> Idle]
    /\ resp = Idle
    /\ users = [u \in Users |-> "active"]
    /\ authed = {}

DsTick ==
    /\ mode = "client"
    /\ \E d \in ClockSteps : Tick(d)
    /\ dsRet' = DsRet("none", 0, None, "none")
    /\ UNCHANGED <<mode, lsProjects, lsInvitations, lsTasks, dsIds, srvVars>>

DsCreateProject ==
    /\ mode = "client"
    /\ \E u \in DsCreators, st \in DsSettingInputs :
           \E m \in MemberInputs(u) : createProject(u, m, st, TRUE)
    /\ UNCHANGED <<mode, now, srvVars>>

DsCreateInvitation ==
    /\ mode = "client"
    /\ \E p \in DsProjectIds, u \in Users, e \in DsEmails :
           createInvitation(p, u, e, TRUE, 0)
    /\ UNCHANGED <<mode, now, srvVars>>

DsAcceptInvitation ==
    /\ mode = "client"
    /\ \E i \in DsInvitationIds, u \in Users, ok1 \in BOOLEAN, ok2 \in BOOLEAN :
           acceptInvitation(i, u, ok1, ok2)
    /\ UNCHANGED <<mode, now, srvVars>>

DsRejectInvitation ==
    /\ mode = "client"
    /\ \E i \in DsInvitationIds, ok \in BOOLEAN : rejectInvitation(i, ok)
    /\ UNCHANGED <<mode, now, srvVars>>

DsCreateTask ==
    /\ mode = "client"
    /\ \E p \in DsProjectIds, u \in Users, a \in DsAssignees :
           createTask(p, a, u, TRUE)
    /\ UNCHANGED <<mode, now, srvVars>>

DsRemoveMember ==
    /\ mode = "client"
    /\ \E p \in DsProjectIds, m \in Users, u \in Users, ok \in BOOLEAN :
           removeMember(p, m, u, ok)
    /\ UNCHANGED <<mode, now, srvVars>>

NextClient ==
    \/ DsTick
    \/ DsCreateProject
    \/ DsCreateInvitation
    \/ DsAcceptInvitation
    \/ DsRejectInvitation
    \/ DsRemoveMember

SpecClient == InitClient /\ [][NextClient]_vars


----------------------------------------------------------------------------
(* Reads and writes of both implementations, one server request at a time   *)

DsTaskIds == {lsTasks[k].taskId : k \in 1..Len(lsTasks)} \cup {0}

DsGetProject ==
    /\ mode = "client"
    /\ \E p \in DsProjectIds, u \in Users :
          dsRet' = DsRet("getProject", p, u,
                         IF getProject(p, u) = NullProject THEN "null" ELSE "value")
    /\ UNCHANGED <<mode, now, lsProjects, lsInvitations, lsTasks, dsIds, srvVars>>

DsGetTask ==
    /\ mode = "client"
    /\ \E t \in DsTaskIds, u \in Users :
          dsRet' = DsRet("getTask", t, u,
                         IF getTask(t, u) THEN "value" ELSE "null")
    /\ UNCHANGED <<mode, now, lsProjects, lsInvitations, lsTasks, dsIds, srvVars>>

DsGetTasksByProject ==
    /\ mode = "client"
    /\ \E p \in DsProjectIds, u \in Users :
          dsRet' = DsRet("getTasksByProject", p, u,
                         IF getTasksByProject(p, u) = <<>> THEN "empty" ELSE "value")
    /\ UNCHANGED <<mode, now, lsProjects, lsInvitations, lsTasks, dsIds, srvVars>>

SerAccept ==
    /\ \E r \in Slots :
          \/ (Quiet /\ \E u \in Users, i \in InvitationIds : AcceptLookup(r, u, i))
          \/ AcceptMemberCheck(r)
          \/ \E dbOk \in BOOLEAN : AcceptUpdateOnly(r, dbOk)
          \/ \E dbOk \in BOOLEAN : AcceptInsert(r, dbOk)
          \/ \E dbOk \in BOOLEAN : AcceptUpdate(r, dbOk)
          \/ \E dbOk \in BOOLEAN : AcceptCommit(r, dbOk)
          \/ AcceptRollback(r)
    /\ mode = "server"
    /\ UNCHANGED <<mode, now, dsVars, authVars>>

SerDeleteMember ==
    /\ Quiet
    /\ \E p \in ProjectIds \ {0}, t \in Users, u \in Users :
          DeleteMember(1, p, t, u)
    /\ mode = "server"
    /\ UNCHANGED <<mode, now, dsVars, authVars>>

SerGetProject ==
    /\ Quiet
    /\ \E p \in ProjectIds, u \in Users : GetProjectRoute(p, u)
    /\ mode = "server"
    /\ UNCHANGED <<mode, now, dsVars, authVars>>

SerGetProjectTasks ==
    /\ Quiet
    /\ \E p \in ProjectIds, u \in Users : GetProjectTasksRoute(p, u)
    /\ mode = "server"
    /\ UNCHANGED <<mode, now, dsVars, authVars>>

InitAccess == InitClient \/ InitServer

NextAccess ==
    \/ DsTick
    \/ DsCreateProject
    \/ DsCreateInvitation
    \/ DsAcceptInvitation
    \/ DsRemoveMember
    \/ DsCreateTask
    \/ DsGetProject
    \/ DsGetTask
    \/ DsGetTasksByProject
    \/ SrvTick
    \/ AccPostProjects
    \/ AccInvite
    \/ SerAccept
    \/ SerDeleteMember
    \/ SerGetProject
    \/ SerGetProjectTasks

SpecAccess == InitAccess /\ [][NextAccess]_vars

----------------------------------------------------------------------------
(* Invitations sent concurrently                                           *)

InvInvite ==
    /\ \E r \in Slots :
          \/ \E u \in Creators, p \in ProjectIds, e \in EmailInputs :
                InvProjectQuery(r, u, p, e)
          \/ InvMemberCheck(r)
          \/ InvPendingCheck(r)
          \/ InvInsert(r, 0)
          \/ \E sent \in BOOLEAN : InvSendMail(r, sent)
    /\ mode = "server"
    /\ UNCHANGED <<mode, now, dsVars, authVars>>

NextInvite ==
    \/ SrvTick
    \/ AccPostProjects
    \/ InvInvite

SpecInvite == InitServer /\ [][NextInvite]_vars

----------------------------------------------------------------------------
(* Tasks on the server, one request at a time                              *)

\* settings objects a caller may send with POST /projects
TaskSettingInputs == {[allowMemberTaskEdit |-> TRUE],
                      [allowMemberTaskEdit |-> FALSE]}

\* assignees a caller may name, None for null
TaskAssignees == {None, "u2"}

\* bodies a caller may send with PUT /tasks/:id
TaskBodies == {NoBody,
               [NoBody EXCEPT !.status = "completed"],
               [NoBody EXCEPT !.assigneeId = "u3"]}

TaskIds == {row.id : row \in tasks} \cup {0}

TskPostProjects ==
    /\ Quiet
    /\ \E u \in Creators, st \in TaskSettingInputs : PostProjects(u, st)
    /\ mode = "server"
    /\ UNCHANGED <<mode, now, dsVars, authVars>>

TskAccept ==
    /\ \E r \in Slots :
          \/ (Quiet /\ \E u \in Users, i \in InvitationIds : AcceptLookup(r, u, i))
          \/ AcceptMemberCheck(r)
          \/ AcceptUpdateOnly(r, TRUE)
          \/ AcceptInsert(r, TRUE)
          \/ AcceptUpdate(r, TRUE)
          \/ AcceptCommit(r, TRUE)
          \/ AcceptRollback(r)
    /\ mode = "server"
    /\ UNCHANGED <<mode, now, dsVars, authVars>>

TskPostTask ==
    /\ \E r \in Slots :
          \/ (Quiet /\ \E u \in Users, p \in ProjectIds, a \in TaskAssignees :
                          PostTaskPermissionQuery(r, u, p, a))
          \/ PostTaskInsert(r)
    /\ mode = "server"
    /\ UNCHANGED <<mode, now, dsVars, authVars>>

TskPutTask ==
    /\ \E r \in Slots :
          \/ (Quiet /\ \E u \in Users, t \in TaskIds, body \in TaskBodies :
                          PutTaskQuery(r, u, t, body))
          \/ PutTaskUpdate(r)
    /\ mode = "server"
    /\ UNCHANGED <<mode, now, dsVars, authVars>>

NextTasks ==
    \/ SrvTick
    \/ TskPostProjects
    \/ AccInvite
    \/ TskAccept
    \/ TskPostTask
    \/ TskPutTask

SpecTasks == InitServer /\ [][NextTasks]_vars

----------------------------------------------------------------------------
(* Project management in both implementations: settings, tasks, members    *)

\* the Partial<Project> objects a caller may pass to updateProject
ProjectUpdateInputs ==
    {[NoProjectUpdates EXCEPT !.has = {"settings"},
         !.settings = [DefaultSettings EXCEPT !["allowMemberTaskCreate"] = TRUE]],
     [NoProjectUpdates EXCEPT !.has = {"settings"}],
     [NoProjectUpdates EXCEPT !.has = {"ownerId"}, !.ownerId = "u2"],
     [NoProjectUpdates EXCEPT !.has = {"members"}]}

\* the settings objects a caller may send with PUT /projects/:id
PutSettingInputs == {[allowMemberTaskCreate |-> TRUE],
                     [allowMemberTaskCreate |-> FALSE]}

DsUpdateProject ==
    /\ mode = "client"
    /\ \E p \in DsProjectIds, u \in Users, updates \in ProjectUpdateInputs :
           updateProject(p, updates, u, TRUE)
    /\ UNCHANGED <<mode, now, srvVars>>

DsDeleteTask ==
    /\ mode = "client"
    /\ \E t \in DsTaskIds, u \in Users : deleteTask(t, u, TRUE)
    /\ UNCHANGED <<mode, now, srvVars>>

\* the owner invites, the invitee accepts
MgDsInvite ==
    /\ mode = "client"
    /\ \E p \in DsProjectIds \ {0}, u \in DsCreators, e \in DsEmails :
           createInvitation(p, u, e, TRUE, 0)
    /\ UNCHANGED <<mode, now, srvVars>>

MgDsAccept ==
    /\ mode = "client"
    /\ \E i \in DsInvitationIds \ {0} : acceptInvitation(i, "u2", TRUE, TRUE)
    /\ UNCHANGED <<mode, now, srvVars>>

MgDsRemoveMember ==
    /\ mode = "client"
    /\ \E p \in DsProjectIds, m \in Users, u \in Users :
           removeMember(p, m, u, TRUE)
    /\ UNCHANGED <<mode, now, srvVars>>

\* the requests in flight are all of these kinds
OnlyInFlight(kinds) == \A r \in Slots : reqs[r].kind \in kinds \cup {"idle"}

MgAccept ==
    /\ \E r \in Slots :
          \/ (Quiet /\ \E u \in Users, i \in InvitationIds : AcceptLookup(r, u, i))
          \/ AcceptMemberCheck(r)
          \/ AcceptUpdateOnly(r, TRUE)
          \/ AcceptInsert(r, TRUE)
          \/ AcceptUpdate(r, TRUE)
          \/ AcceptCommit(r, TRUE)
          \/ AcceptRollback(r)
    /\ mode = "server"
    /\ UNCHANGED <<mode, now, dsVars, authVars>>

MgPutProject ==
    /\ \E r \in Slots :
          \/ (OnlyInFlight({"postTask"})
                /\ \E u \in Users, p \in ProjectIds, st \in PutSettingInputs :
                       PutProjectOwnerCheck(r, u, p, st))
          \/ PutProjectUpdate(r)
    /\ mode = "server"
    /\ UNCHANGED <<mode, now, dsVars, authVars>>

MgPostTask ==
    /\ \E r \in Slots :
          \/ (OnlyInFlight({"putProject"})
                /\ \E u \in Users, p \in ProjectIds :
                       PostTaskPermissionQuery(r, u, p, None))
          \/ PostTaskInsert(r)
    /\ mode = "server"
    /\ UNCHANGED <<mode, now, dsVars, authVars>>

MgDeleteTask ==
    /\ \E r \in Slots :
          \/ (Quiet /\ \E u \in Users, t \in TaskIds :
                          DeleteTaskOwnerQuery(r, u, t))
          \/ DeleteTaskDelete(r)
    /\ mode = "server"
    /\ UNCHANGED <<mode, now, dsVars, authVars>>

MgDeleteMember ==
    /\ Quiet
    /\ \E r \in Slots, p \in ProjectIds \ {0}, t \in Users, u \in Users :
          DeleteMember(r, p, t, u)
    /\ mode = "server"
    /\ UNCHANGED <<mode, now, dsVars, authVars>>

NextManage ==
    \/ DsCreateProject
    \/ MgDsInvite
    \/ MgDsAccept
    \/ MgDsRemoveMember
    \/ DsCreateTask
    \/ DsDeleteTask
    \/ DsUpdateProject
    \/ AccPostProjects
    \/ AccInvite
    \/ MgAccept
    \/ MgPutProject
    \/ MgPostTask
    \/ MgDeleteTask
    \/ MgDeleteMember

SpecManage == InitAccess /\ [][NextManage]_vars

----------------------------------------------------------------------------
(* Task edits in both implementations; PUT requests may overlap            *)

\* the Partial<Task> objects a caller may pass to updateTask
TaskUpdateInputs ==
    {[NoTaskUpdates EXCEPT !.has = {"status"}, !.status = "completed"],
     [NoTaskUpdates EXCEPT !.has = {"status"}],
     [NoTaskUpdates EXCEPT !.has = {"assignee"}, !.assignee = "u2"],
     [NoTaskUpdates EXCEPT !.has = {"projectId"}],
     [NoTaskUpdates EXCEPT !.has = {"taskId"}]}

\* bodies a caller may send with PUT /tasks/:id
EditBodies == {[NoBody EXCEPT !.status = "completed"],
               [NoBody EXCEPT !.status = "pending"],
               [NoBody EXCEPT !.assigneeId = "u2"]}

\* the callers of an edit: the owner and a user without access
Editors == {"u1", "u3"}

EdDsCreateTask ==
    /\ mode = "client"
    /\ \E p \in DsProjectIds \ {0}, u \in DsCreators :
           createTask(p, None, u, TRUE)
    /\ UNCHANGED <<mode, now, srvVars>>

DsUpdateTask ==
    /\ mode = "client"
    /\ \E t \in DsTaskIds, u \in Editors, updates \in TaskUpdateInputs :
           updateTask(t, updates, u, TRUE)
    /\ UNCHANGED <<mode, now, srvVars>>

EdPostTask ==
    /\ \E r \in Slots :
          \/ (Quiet /\ \E u \in Creators, p \in ProjectIds \ {0} :
                          PostTaskPermissionQuery(r, u, p, None))
          \/ PostTaskInsert(r)
    /\ mode = "server"
    /\ UNCHANGED <<mode, now, dsVars, authVars>>

EdPutTask ==
    /\ \E r \in Slots :
          \/ (OnlyInFlight({"putTask"})
                /\ \E u \in Editors, t \in TaskIds, body \in EditBodies :
                       PutTaskQuery(r, u, t, body))
          \/ PutTaskUpdate(r)
    /\ mode = "server"
    /\ UNCHANGED <<mode, now, dsVars, authVars>>

NextEdit ==
    \/ DsTick
    \/ DsCreateProject
    \/ EdDsCreateTask
    \/ DsUpdateTask
    \/ SrvTick
    \/ AccPostProjects
    \/ EdPostTask
    \/ EdPutTask

SpecEdit == InitAccess /\ [][NextEdit]_vars

----------------------------------------------------------------------------
(* Requests through authenticateToken while users are deactivated or       *)
(* deleted                                                                 *)

\* the routes requests are sent to
Routes == {"postProjects", "invite", "getInvitation"}

\* the requests next() has handed to a route
Passed(route) == {a \in authed : a.route = route}

AuAuthenticate ==
    /\ \E token \in Tokens, route \in Routes, i \in InvitationIds :
          authenticateToken(token, route,
                            IF route = "getInvitation" THEN i ELSE 0)
    /\ mode = "server"
    /\ UNCHANGED <<mode, now, dsVars>>

AuPostProjects ==
    /\ Quiet
    /\ \E a \in Passed("postProjects") :
          /\ a.user \in Creators
          /\ PostProjects(a.user, <<>>)
          /\ authed' = authed \ {a}
    /\ mode = "server"
    /\ UNCHANGED <<mode, now, dsVars, users>>

AuInvite ==
    /\ \E r \in Slots :
          \/ (Quiet /\ \E a \in Passed("invite"), p \in ProjectIds :
                          /\ InvProjectQuery(r, a.user, p, "b@x.com")
                          /\ authed' = authed \ {a})
          \/ (InvMemberCheck(r) /\ UNCHANGED authed)
          \/ (InvPendingCheck(r) /\ UNCHANGED authed)
          \/ (InvInsert(r, 0) /\ UNCHANGED authed)
          \/ (InvSendMail(r, TRUE) /\ UNCHANGED authed)
    /\ mode = "server"
    /\ UNCHANGED <<mode, now, dsVars, users>>

AuGetInvitation ==
    /\ \E a \in Passed("getInvitation") :
          /\ GetInvitationRoute(a.user, a.id)
          /\ authed' = authed \ {a}
    /\ mode = "server"
    /\ UNCHANGED <<mode, now, dsVars, users>>

AuDeactivateUser ==
    /\ \E u \in Users : DeactivateUser(u)
    /\ mode = "server"
    /\ UNCHANGED <<mode, now, dsVars>>

AuDeleteUser ==
    /\ Quiet
    /\ \E u \in Users : DeleteUser(u)
    /\ mode = "server"
    /\ UNCHANGED <<mode, now, dsVars>>

NextAuth ==
    \/ SrvTick
    \/ AuAuthenticate
    \/ AuPostProjects
    \/ AuInvite
    \/ AuGetInvitation
    \/ AuDeactivateUser
    \/ AuDeleteUser

SpecAuth == InitServer /\ [][NextAuth]_vars

----------------------------------------------------------------------------
(* Invitations created while the clock runs                                *)

\* the milliseconds that may pass between the two clock readings of one
\* invitation
Elapsed == {0, 1}

XpDsInvite ==
    /\ mode = "client"
    /\ \E p \in DsProjectIds, u \in Users, e \in DsEmails, d \in Elapsed :
           /\ now + d \in ClockValues
           /\ createInvitation(p, u, e, TRUE, d)
           /\ now' = now + d
    /\ UNCHANGED <<mode, srvVars>>

XpInvite ==
    /\ \E r \in Slots :
          \/ (Quiet /\ UNCHANGED now
                /\ \E u \in Users, p \in ProjectIds :
                       InvProjectQuery(r, u, p, "b@x.com"))
          \/ (InvMemberCheck(r) /\ UNCHANGED now)
          \/ (InvPendingCheck(r) /\ UNCHANGED now)
          \/ (\E d \in Elapsed : /\ now + d \in ClockValues
                                  /\ InvInsert(r, d)
                                  /\ now' = now + d)
          \/ (\E sent \in BOOLEAN : InvSendMail(r, sent) /\ UNCHANGED now)
    /\ mode = "server"
    /\ UNCHANGED <<mode, dsVars, authVars>>

NextExpiry ==
    \/ DsTick
    \/ DsCreateProject
    \/ XpDsInvite
    \/ DsRejectInvitation
    \/ SrvTick
    \/ AccPostProjects
    \/ XpInvite

SpecExpiry == InitAccess /\ [][NextExpiry]_vars

----------------------------------------------------------------------------
(* One operation put to both implementations in corresponding states: the   *)
(* same owner, member set, settings flags and task assignee are stored in  *)
(* localStorage and in the database, and each call is made on both         *)

\* the members the project has besides its owner
PermMembers == {{}, {"u2"}}

\* the assignee of the task: nobody, a member or not, or an outsider
PermAssignees == {None, "u2", "u3"}

\* the member a caller asks to remove
PermTargets == {"u1", "u2"}

InitPerm ==
    \E members \in PermMembers, st \in [SettingKeys -> BOOLEAN],
       a \in PermAssignees, hasTask \in BOOLEAN :
        /\ (~hasTask => a = None)
        /\ mode = "both"
        /\ now = 0
        /\ lsProjects = <<[projectId |-> 1, ownerId |-> "u1",
                           members |-> IF members = {} THEN <<"u1">>
                                       ELSE <<"u1", "u2">>,
                           settings |-> st]>>
        /\ lsInvitations = <<>>
        /\ lsTasks = IF hasTask
                     THEN <<[taskId |-> 2, projectId |-> 1, assignee |-> a,
                             status |-> "pending", completedAt |-> NoTime]>>
                     ELSE <<>>
        /\ dsIds = IF hasTask THEN 2 ELSE 1
        /\ dsRet = DsRet("none", 0, None, "none")
        /\ projects = {[id |-> 1, owner_id |-> "u1", settings |-> st]}
        /\ project_members =
              {[id |-> 1, project_id |-> 1, user_id |-> "u1"]}
                 \cup {[id |-> 2, project_id |-> 1, user_id |-> m] : m \in members}
        /\ invitations = {}
        /\ tasks = IF hasTask
                   THEN {[id |-> 1, project_id |-> 1, assignee_id |-> a,
                          status |-> "pending", completed_at |-> NoTime]}
                   ELSE {}
        /\ rowIds = [t \in Tables |-> IF t = "projects" THEN 1
                                      ELSE IF t = "tasks" /\ hasTask THEN 1
                                      ELSE 0]
        /\ reqs = [r \in Slots |-> Idle]
        /\ resp = Idle
        /\ users = [u \in Users |-> "active"]
        /\ authed = {}

PmCreateTask ==
    /\ mode = "both" /\ Quiet
    /\ \E u \in Users, p \in DsProjectIds \ {0}, q \in ProjectIds \ {0} :
          /\ createTask(p, None, u, TRUE)
          /\ PostTaskPermissionQuery(1, u, q, None)
    /\ UNCHANGED <<mode, now, authVars>>

PmUpdateTask ==
    /\ mode = "both" /\ Quiet
    /\ \E u \in Users, t \in DsTaskIds \ {0}, row \in TaskIds \ {0} :
          /\ updateTask(t, NoTaskUpdates, u, TRUE)
          /\ PutTaskQuery(1, u, row, NoBody)
    /\ UNCHANGED <<mode, now, authVars>>

PmDeleteTask ==
    /\ mode = "both" /\ Quiet
    /\ \E u \in Users, t \in DsTaskIds \ {0}, row \in TaskIds \ {0} :
          /\ deleteTask(t, u, TRUE)
          /\ DeleteTaskOwnerQuery(1, u, row)
    /\ UNCHANGED <<mode, now, authVars>>

PmInvite ==
    /\ mode = "both" /\ Quiet
    /\ \E u \in Users, p \in DsProjectIds \ {0}, q \in ProjectIds \ {0} :
          /\ createInvitation(p, u, "b@x.com", TRUE, 0)
          /\ InvProjectQuery(1, u, q, "b@x.com")
    /\ UNCHANGED <<mode, now, authVars>>

PmRemoveMember ==
    /\ mode = "both" /\ Quiet
    /\ \E u \in Users, m \in PermTargets,
          p \in DsProjectIds \ {0}, q \in ProjectIds \ {0} :
          /\ removeMember(p, m, u, TRUE)
          /\ DeleteMember(1, q, m, u)
    /\ UNCHANGED <<mode, now, authVars>>

\* the later queries of a request the server let pass
PmServerStep ==
    /\ mode = "both"
    /\ \E r \in Slots :
          \/ PostTaskInsert(r)
          \/ DeleteTaskDelete(r)
          \/ InvMemberCheck(r)
          \/ InvPendingCheck(r)
          \/ InvInsert(r, 0)
          \/ InvSendMail(r, TRUE)
    /\ UNCHANGED <<mode, now, dsVars, authVars>>

NextPerm ==
    \/ PmCreateTask
    \/ PmUpdateTask
    \/ PmDeleteTask
    \/ PmInvite
    \/ PmRemoveMember
    \/ PmServerStep

SpecPerm == InitPerm /\ [][NextPerm]_vars

----------------------------------------------------------------------------
(* Tasks of a project whose members come and go, one request at a time     *)

NextRemoved ==
    \/ AccPostProjects
    \/ AccInvite
    \/ TskAccept
    \/ SerDeleteMember
    \/ TskPostTask
    \/ TskPutTask

SpecRemoved == InitServer /\ [][NextRemoved]_vars

----------------------------------------------------------------------------
(* Properties of invitation acceptance on the server                       *)

\* the steps of the accept transaction: BEGIN .. COMMIT / ROLLBACK
TxSteps == {"insert", "update", "commit", "rollback"}

\* the status the invitation with id i has in a table, "none" without a row
StatusIn(table, i) ==
    IF \E row \in table : row.id = i
    THEN (CHOOSE row \in table : row.id = i).status
    ELSE "none"

\* the rows a members table holds for (project, user)
RowsIn(table, p, u) == {row \in table : row.project_id = p /\ row.user_id = u}

\* C1: a step of the accept transaction of a user who was not yet a member
\* never adds the membership row while its invitation is left other than
\* 'accepted', and never marks its invitation 'accepted' without the
\* membership row being there; this holds after a failed write and with
\* other requests in flight.
AcceptIsAtomic ==
    [][\A r \in Slots :
          (reqs[r].kind = "accept" /\ reqs[r].pc \in TxSteps /\ reqs'[r] # reqs[r])
          => LET q == reqs[r]
                 rowAdded == RowsIn(project_members', q.project, q.user)
                                 \ project_members # {}
                 accepted == /\ StatusIn(invitations, q.inv) # "accepted"
                             /\ StatusIn(invitations', q.inv) = "accepted"
             IN /\ rowAdded => StatusIn(invitations', q.inv) = "accepted"
                /\ accepted => RowsIn(project_members', q.project, q.user) # {}
      ]_vars

\* C1 witness: a transaction that had inserted the membership row was
\* rolled back because its status update failed
AcceptRolledBackAfterInsert ==
    /\ resp.kind = "accept" /\ resp.status = 500 /\ resp.ins /\ ~resp.upd
    /\ StatusIn(invitations, resp.inv) = "pending"
    /\ RowsIn(project_members, resp.project, resp.user) = {}

\* C7: project_members never holds two rows for one (project, user) pair,
\* and an invitation that is 'accepted' stays 'accepted' in every step,
\* whatever accept, reject and removal requests interleave.
AcceptIsIdempotent ==
    /\ [](\A p \in ProjectIds, u \in Users :
              Cardinality(RowsIn(project_members, p, u)) <= 1)
    /\ [][\A row \in invitations :
              row.status = "accepted"
              => StatusIn(invitations', row.id) = "accepted"]_vars

\* C7 witness: a second accept by a user who is a member already has been
\* answered 200 or 500 and the pair still has its one row
SecondAcceptAnswered ==
    /\ resp.kind = "accept" /\ resp.status \in {200, 500}
    /\ ~resp.ins
    /\ resp.project # 0
    /\ Cardinality(RowsIn(project_members, resp.project, resp.user)) = 1
    /\ \E row \in invitations :
          /\ row.id # resp.inv
          /\ row.project_id = resp.project
          /\ row.invitee_email = emailOf(resp.user)
          /\ row.status = "accepted"

----------------------------------------------------------------------------
(* Properties of the DataService                                           *)

\* the stored invitation with this id, as a set of at most one record
StoredInvitation(store, id) ==
    {store[k] : k \in {j \in 1..Len(store) : store[j].invitationId = id}}

\* the member ids stored for a project
StoredMembers(store, projectId) ==
    UNION {Range(store[k].members) :
              k \in {j \in 1..Len(store) : store[j].projectId = projectId}}

\* C2: whenever acceptInvitation has returned true and the invitation is
\* stored as 'accepted', the accepting user is in the stored member list of
\* the invitation's project.
ClientAcceptNeverHalfApplied ==
    (dsRet.op = "acceptInvitation" /\ dsRet.result = "true")
    => \A inv \in StoredInvitation(lsInvitations, dsRet.id) :
          inv.status = "accepted"
          => dsRet.user \in StoredMembers(lsProjects, inv.projectId)

\* C4: an acceptInvitation call by a user whose e-mail differs from the
\* invitation's inviteeEmail returns false and changes neither the stored
\* invitations nor the stored projects.
ClientOnlyInviteeAccepts ==
    [][\A inv \in StoredInvitation(lsInvitations, dsRet'.id) :
          (dsRet'.op = "acceptInvitation"
              /\ inv.inviteeEmail # emailOf(dsRet'.user))
          => /\ dsRet'.result = "false"
             /\ lsInvitations' = lsInvitations
             /\ lsProjects' = lsProjects
      ]_vars

\* C6: once an invitation is stored as 'accepted' or 'rejected', no call
\* changes its stored status.
ClientStatusIsTerminal ==
    [][\A k \in 1..Len(lsInvitations) :
          lsInvitations[k].status \in {"accepted", "rejected"}
          => lsInvitations'[k].status = lsInvitations[k].status
      ]_vars

\* C9: for the owner, createInvitation throws the duplicate error exactly
\* when a pending invitation with expiresAt in the future is stored for the
\* same project and e-mail, or the e-mail belongs to a current member;
\* otherwise the invitation is stored.
ClientDuplicateDecision ==
    [][(dsRet'.op = "createInvitation"
           /\ dsRet'.result \in {"throw:duplicate", "value"})
       => (dsRet'.result = "throw:duplicate"
           <=> \/ \E k \in 1..Len(lsInvitations) :
                     /\ lsInvitations[k].projectId = dsRet'.id
                     /\ lsInvitations[k].inviteeEmail = dsRet'.email
                     /\ lsInvitations[k].status = "pending"
                     /\ lsInvitations[k].expiresAt > now
               \/ \E m \in StoredMembers(lsProjects, dsRet'.id) :
                     emailOf(m) = dsRet'.email)
      ]_vars


----------------------------------------------------------------------------
(* Properties both implementations share                                   *)

\* the stored project grants user u a view: u owns it or is in its members
StoredMayView(projectId, u) ==
    \E k \in 1..Len(lsProjects) :
        /\ lsProjects[k].projectId = projectId
        /\ (lsProjects[k].ownerId = u \/ u \in Range(lsProjects[k].members))

\* the project row grants user u a view: u owns it or has a membership row
RowMayView(p, u) ==
    \E row \in projects :
        /\ row.id = p
        /\ (row.owner_id = u \/ RowsIn(project_members, p, u) # {})

\* C3: a read of an existing project, of its tasks or of one of its tasks
\* returns data to user U exactly when U is the owner or is in the member
\* set at the time of the call, in the DataService and on the server.
DataReachesOnlyMembers ==
    /\ (dsRet.op = "getProject" /\ dsRet.id \in DsProjectIds \ {0})
       => (dsRet.result = "value" <=> StoredMayView(dsRet.id, dsRet.user))
    /\ (dsRet.op = "getTasksByProject"
          /\ \E k \in 1..Len(lsTasks) : lsTasks[k].projectId = dsRet.id)
       => (dsRet.result = "value" <=> StoredMayView(dsRet.id, dsRet.user))
    /\ \A k \in 1..Len(lsTasks) :
          (dsRet.op = "getTask" /\ dsRet.id = lsTasks[k].taskId)
          => (dsRet.result = "value"
              <=> StoredMayView(lsTasks[k].projectId, dsRet.user))
    /\ (resp.kind \in {"getProject", "getProjectTasks"}
          /\ ProjectExists(resp.project))
       => (resp.status = 200 <=> RowMayView(resp.project, resp.user))

\* C3 witness: a user whose invitation was accepted and whose membership
\* was removed afterwards asks for the project and is refused
RemovedMemberRefused ==
    /\ resp.kind = "getProject" /\ resp.status = 404
    /\ ProjectExists(resp.project)
    /\ RowsIn(project_members, resp.project, resp.user) = {}
    /\ \E row \in invitations :
          /\ row.project_id = resp.project
          /\ row.invitee_email = emailOf(resp.user)
          /\ row.status = "accepted"

\* C5: an accept issued for a pending invitation whose expiry lies in the
\* past fails: acceptInvitation returns false and stores nothing, the
\* server answers 404 at once, starts no transaction and writes no row.
ExpiredNeverAccepted ==
    [][/\ \A inv \in StoredInvitation(lsInvitations, dsRet'.id) :
             (dsRet'.op = "acceptInvitation"
                 /\ inv.status = "pending" /\ inv.expiresAt < now)
             => /\ dsRet'.result = "false"
                /\ lsInvitations' = lsInvitations
                /\ lsProjects' = lsProjects
       /\ \A row \in invitations :
             (row.status = "pending" /\ row.expires_at < now)
             => /\ \A r \in Slots :
                      ~(Free(r) /\ reqs'[r].kind = "accept"
                                /\ reqs'[r].inv = row.id)
                /\ (resp'.kind = "accept" /\ resp'.inv = row.id /\ reqs' = reqs)
                   => /\ resp'.status = 404
                      /\ invitations' = invitations
                      /\ project_members' = project_members
      ]_vars

\* C5 witness: the invitee's accept of a pending invitation that expired
\* has been answered 404
ExpiredAcceptRefused ==
    /\ resp.kind = "accept" /\ resp.status = 404
    /\ \E row \in invitations :
          /\ row.id = resp.inv
          /\ row.invitee_email = emailOf(resp.user)
          /\ row.status = "pending"
          /\ row.expires_at < now


----------------------------------------------------------------------------
(* Properties of the server's invitation and task routes                   *)

\* C8: no (project, e-mail) pair ever has two pending invitations whose
\* expiry lies in the future, however POST /invitations requests overlap.
OnePendingInvitationPerPair ==
    \A p \in ProjectIds, e \in {toLowerCase(x) : x \in EmailInputs} :
        Cardinality({row \in invitations : /\ row.project_id = p
                                            /\ row.invitee_email = e
                                            /\ row.status = "pending"
                                            /\ row.expires_at > now}) <= 1

\* canEditTask of the specification: the owner, or the assignee while the
\* project allows members to edit tasks
canEditTask(u, task) ==
    \/ ProjectRow(task.project_id).owner_id = u
    \/ (task.assignee_id = u
          /\ ProjectRow(task.project_id).settings["allowMemberTaskEdit"])

\* C10: PUT /tasks/:id on an existing task goes on to its update only for
\* a caller canEditTask admits, and is answered 403 exactly for the callers
\* it does not admit; a request answered at once leaves the tasks as they
\* were.
PutTaskFollowsCanEditTask ==
    [][\A task \in tasks :
          /\ (resp'.kind = "putTask" /\ resp'.task = task.id /\ reqs' = reqs)
             => /\ resp'.status = 403 <=> ~canEditTask(resp'.user, task)
                /\ tasks' = tasks
          /\ \A r \in Slots :
                (Free(r) /\ reqs'[r].kind = "putTask" /\ reqs'[r].task = task.id)
                => canEditTask(reqs'[r].user, task)
      ]_vars


\* the user neither owns project p nor has a membership row in it
Outsider(u, p) == ~RowMayView(p, u)

\* C15: a project-scoped request of a caller who is neither owner nor
\* member of an existing project gets the not-found answer (404) that the
\* same request gets for a project id of no row.
ExistenceHiddenFromOutsiders ==
    (resp.kind \in {"postTask", "invite"}
        /\ ProjectExists(resp.project)
        /\ Outsider(resp.user, resp.project))
    => resp.status = 404

\* C20: rejecting an invitation that is still 'pending' but whose expiry
\* has passed fails and leaves its status 'pending'.
RejectChecksExpiry ==
    [][\A row \in invitations :
          (row.status = "pending" /\ row.expires_at < now
              /\ resp'.kind = "reject" /\ resp'.inv = row.id)
          => /\ resp'.status # 200
             /\ StatusIn(invitations', row.id) = "pending"
      ]_vars

----------------------------------------------------------------------------
(* Properties of project management                                        *)

\* the owner id the stored project with this id has, None without one
StoredOwner(projectId) ==
    LET idx == FindIndex(lsProjects, LAMBDA p : p.projectId = projectId)
    IN IF idx = 0 THEN None ELSE lsProjects[idx].ownerId

\* the owner of the project row with this id, None without a row
RowOwner(p) == IF ProjectExists(p) THEN ProjectRow(p).owner_id ELSE None

\* a deleteTask / removeMember step of the DataService: a stored task goes
\* only by deleteTask of the owner, a member id goes only by a call of the
\* owner, and removeMember naming the owner changes nothing
ClientOwnerManages ==
    /\ \A k \in 1..Len(lsTasks) :
          (\A j \in 1..Len(lsTasks') : lsTasks'[j].taskId # lsTasks[k].taskId)
          => /\ dsRet'.op = "deleteTask"
             /\ dsRet'.id = lsTasks[k].taskId
             /\ dsRet'.user = StoredOwner(lsTasks[k].projectId)
    /\ \A k \in 1..Len(lsProjects) : \A m \in Range(lsProjects[k].members) :
          m \notin StoredMembers(lsProjects', lsProjects[k].projectId)
          => /\ dsRet'.op \in {"removeMember", "updateProject"}
             /\ dsRet'.user = lsProjects[k].ownerId
             /\ dsRet'.op = "removeMember"
                => (dsRet'.target = m /\ m # lsProjects[k].ownerId)
    /\ (dsRet'.op = "removeMember" /\ dsRet'.target = StoredOwner(dsRet'.id))
          => /\ dsRet'.result # "true"
             /\ lsProjects' = lsProjects
             /\ lsTasks' = lsTasks
    /\ (dsRet'.op \in {"removeMember", "deleteTask"}
           /\ dsRet'.result = "throw:owner")
          => (lsProjects' = lsProjects /\ lsTasks' = lsTasks)

\* the same of a step of the server
ServerOwnerManages ==
    /\ \A row \in tasks :
          (\A kept \in tasks' : kept.id # row.id)
          => /\ resp'.kind = "deleteTask" /\ resp'.status = 200
             /\ resp'.task = row.id
             /\ resp'.user = RowOwner(row.project_id)
    /\ \A row \in project_members \ project_members' :
          /\ resp'.kind = "deleteMember" /\ resp'.status = 200
          /\ resp'.user = RowOwner(row.project_id)
          /\ resp'.target = row.user_id
          /\ row.user_id # RowOwner(row.project_id)
    /\ (resp'.kind = "deleteMember" /\ resp'.target = RowOwner(resp'.project))
          => (resp'.status # 200 /\ project_members' = project_members)
    /\ (resp'.kind \in {"deleteMember", "deleteTask"} /\ resp'.status = 403)
          => (project_members' = project_members /\ tasks' = tasks)

\* the owner of every project reads it
OwnerHasAccess ==
    /\ \A k \in 1..Len(lsProjects) :
          getProject(lsProjects[k].projectId, lsProjects[k].ownerId)
              = lsProjects[k]
    /\ \A row \in projects : GetProject(row.id, row.owner_id)

\* C11: a task is deleted only by deleteTask / DELETE /tasks/:id of the
\* project's owner and a member is removed only by a call of the owner;
\* a call by anyone else leaves tasks and membership as they were;
\* removing the owner is refused for every caller; and in every state the
\* owner of a project reads it.  DataService and server.
OnlyOwnerDeletesAndRemoves ==
    /\ [][ClientOwnerManages /\ ServerOwnerManages]_vars
    /\ []OwnerHasAccess

\* C11 witness: DELETE /tasks/:id of a user who does not own the project
\* was answered 403 and the task is still there
NonOwnerDeleteRefused ==
    /\ resp.kind = "deleteTask" /\ resp.status = 403
    /\ \E row \in tasks : row.id = resp.task /\ RowOwner(row.project_id) # resp.user

\* canCreateTask on the stored project: the owner, or a member while the
\* project's allowMemberTaskCreate is set
StoredCanCreateTask(u, projectId) ==
    \E k \in 1..Len(lsProjects) :
        /\ lsProjects[k].projectId = projectId
        /\ \/ lsProjects[k].ownerId = u
           \/ /\ u \in Range(lsProjects[k].members)
              /\ "allowMemberTaskCreate" \in DOMAIN lsProjects[k].settings
              /\ lsProjects[k].settings["allowMemberTaskCreate"]

\* canCreateTask on the project row
RowCanCreateTask(u, p) ==
    \E row \in projects :
        /\ row.id = p
        /\ \/ row.owner_id = u
           \/ /\ RowsIn(project_members, p, u) # {}
              /\ "allowMemberTaskCreate" \in DOMAIN row.settings
              /\ row.settings["allowMemberTaskCreate"]

\* a createTask call of the DataService
ClientCreateFollowsSetting ==
    /\ (dsRet'.op = "createTask" /\ dsRet'.result = "value")
          => /\ Len(lsTasks') = Len(lsTasks) + 1
             /\ StoredCanCreateTask(dsRet'.user,
                                    lsTasks'[Len(lsTasks')].projectId)
    /\ (dsRet'.op = "createTask" /\ dsRet'.result = "throw:permission")
          => /\ StoredMayView(dsRet'.id, dsRet'.user)
             /\ ~StoredCanCreateTask(dsRet'.user, dsRet'.id)
             /\ lsTasks' = lsTasks
    /\ (dsRet'.op = "createTask" /\ dsRet'.result = "throw:access")
          => /\ ~StoredMayView(dsRet'.id, dsRet'.user)
             /\ lsTasks' = lsTasks
    /\ Len(lsTasks') > Len(lsTasks) => dsRet'.op = "createTask"

\* a step of POST /tasks
ServerCreateFollowsSetting ==
    /\ \A r \in Slots :
          (Free(r) /\ reqs'[r].kind = "postTask")
          => RowCanCreateTask(reqs'[r].user, reqs'[r].project)
    /\ (resp'.kind = "postTask" /\ resp'.status = 403)
          => /\ ProjectExists(resp'.project)
             /\ ~RowCanCreateTask(resp'.user, resp'.project)
             /\ tasks' = tasks
    /\ (resp'.kind = "postTask" /\ resp'.status = 404)
          => (~ProjectExists(resp'.project) /\ tasks' = tasks)
    /\ (tasks' \ tasks # {})
          => /\ resp'.kind = "postTask" /\ resp'.status = 201
             /\ \E r \in Slots : /\ reqs[r].kind = "postTask"
                                 /\ reqs[r].pc = "insert"
                                 /\ reqs[r].user = resp'.user

\* C12: createTask / POST /tasks is decided by canCreateTask on the
\* settings stored when the call makes its permission check: the call goes
\* on to add the task exactly when the caller is the owner, or a member
\* while allowMemberTaskCreate is true; otherwise it is refused and no task
\* is added.  This holds across any updates of the flag by the owner.
CreateTaskFollowsSetting ==
    [][ClientCreateFollowsSetting /\ ServerCreateFollowsSetting]_vars

\* C12 witness: a member who is not the owner has created a task on the
\* server; the project was created with the flag false, so the owner has
\* set it to true in between
MemberCreatedAfterFlagSet ==
    /\ resp.kind = "postTask" /\ resp.status = 201
    /\ resp.user # RowOwner(resp.project)
    /\ RowsIn(project_members, resp.project, resp.user) # {}
    /\ ~DefaultSettings["allowMemberTaskCreate"]
    /\ ProjectRow(resp.project).settings["allowMemberTaskCreate"]

\* C16: no step changes the owner of a project: the ownerId of every
\* stored project and the owner_id of every project row are in the next
\* state what they are now, whatever updateProject, invitation and
\* removeMember calls are made.
OwnerNeverChanges ==
    [][/\ \A k \in 1..Len(lsProjects) :
             StoredOwner(lsProjects[k].projectId)' = lsProjects[k].ownerId
       /\ \A row \in projects : RowOwner(row.id)' = row.owner_id
      ]_vars

\* C17: in every state the owner of a project is in its stored membership:
\* in the members array of the DataService project, and in a
\* project_members row on the server.
OwnerIsMember ==
    /\ \A k \in 1..Len(lsProjects) :
          lsProjects[k].ownerId \in Range(lsProjects[k].members)
    /\ \A row \in projects : RowsIn(project_members, row.id, row.owner_id) # {}

----------------------------------------------------------------------------
(* Properties of the completion timestamp                                  *)

\* the stored task with this id in a tasks array, as a set of at most one
StoredTask(store, taskId) ==
    {store[k] : k \in {j \in 1..Len(store) : store[j].taskId = taskId}}

\* C18: a step that finds a task 'completed' and leaves it 'completed'
\* leaves its completedAt / completed_at as it was, in the DataService
\* and on the server.
CompletedAtStableWhileCompleted ==
    [][/\ \A k \in 1..Len(lsTasks) :
             \A after \in StoredTask(lsTasks', lsTasks[k].taskId) :
                (lsTasks[k].status = "completed" /\ after.status = "completed")
                => after.completedAt = lsTasks[k].completedAt
       /\ \A row \in tasks : \A after \in tasks' :
             (after.id = row.id /\ row.status = "completed"
                  /\ after.status = "completed")
             => after.completed_at = row.completed_at
      ]_vars

\* C19: a completedAt / completed_at that has been written is never
\* written again: once it holds a time, no step changes it.
CompletedAtSetOnce ==
    [][/\ \A k \in 1..Len(lsTasks) :
             \A after \in StoredTask(lsTasks', lsTasks[k].taskId) :
                lsTasks[k].completedAt # NoTime
                => after.completedAt = lsTasks[k].completedAt
       /\ \A row \in tasks : \A after \in tasks' :
             (after.id = row.id /\ row.completed_at # NoTime)
             => after.completed_at = row.completed_at
      ]_vars

----------------------------------------------------------------------------
(* Properties of authentication                                            *)

\* the requests a step takes from the middleware into their route
Taken == authed \ authed'

GetInvitationIsPublic ==
    (resp.kind = "getInvitation" /\ resp.token = NoToken
        /\ \E row \in invitations : /\ row.id = resp.inv
                                    /\ row.status = "pending"
                                    /\ now < row.expires_at)
    => resp.status = 200

----------------------------------------------------------------------------
(* Further properties of member management                                 *)

\* C21: when the owner asks to remove a user who is not the owner and is
\* not in the project's member set, the stored membership stays as it is
\* and the call reports not-found: removeMember returns false, DELETE
\* /projects/:id/members/:userId answers 404.
RemovingNonMemberIsNotFound ==
    [][/\ (/\ dsRet'.op = "removeMember"
           /\ StoredOwner(dsRet'.id) # None
           /\ dsRet'.user = StoredOwner(dsRet'.id)
           /\ dsRet'.target # StoredOwner(dsRet'.id)
           /\ dsRet'.target \notin StoredMembers(lsProjects, dsRet'.id))
          => (dsRet'.result = "false" /\ lsProjects' = lsProjects)
       /\ (/\ resp'.kind = "deleteMember"
           /\ RowOwner(resp'.project) # None
           /\ resp'.user = RowOwner(resp'.project)
           /\ resp'.target # RowOwner(resp'.project)
           /\ RowsIn(project_members, resp'.project, resp'.target) = {})
          => (resp'.status = 404 /\ project_members' = project_members)
      ]_vars

----------------------------------------------------------------------------
(* Properties of stored invitations                                        *)

\* C22: every stored invitation expires exactly seven days (604800000 ms)
\* after it was created, in the DataService and on the server.
ExpiresSevenDaysAfterCreation ==
    /\ \A k \in 1..Len(lsInvitations) :
          lsInvitations[k].expiresAt = lsInvitations[k].createdAt + 604800000
    /\ \A row \in invitations : row.expires_at = row.created_at + 604800000

----------------------------------------------------------------------------
(* Properties of the DataService over a failing store                      *)

\* C23: whenever a DataService call has reported success, the change it
\* reports is in storage: the created project, invitation or task is
\* stored, an accepted invitation is stored as 'accepted' with the user in
\* the project's members, and a removed member is no longer stored.
ClientSuccessIsStored ==
    /\ (dsRet.op = "createProject" /\ dsRet.result = "value")
          => \E k \in 1..Len(lsProjects) : lsProjects[k].projectId = dsRet.id
    /\ (dsRet.op = "createInvitation" /\ dsRet.result = "value")
          => \E k \in 1..Len(lsInvitations) :
                /\ lsInvitations[k].projectId = dsRet.id
                /\ lsInvitations[k].inviteeEmail = dsRet.email
    /\ (dsRet.op = "createTask" /\ dsRet.result = "value")
          => \E k \in 1..Len(lsTasks) : lsTasks[k].taskId = dsRet.id
    /\ (dsRet.op = "acceptInvitation" /\ dsRet.result = "true")
          => \A inv \in StoredInvitation(lsInvitations, dsRet.id) :
                /\ inv.status = "accepted"
                /\ dsRet.user \in StoredMembers(lsProjects, inv.projectId)
    /\ (dsRet.op = "removeMember" /\ dsRet.result = "true")
          => dsRet.target \notin StoredMembers(lsProjects, dsRet.id)

----------------------------------------------------------------------------
(* Further properties of acceptance on the server                          *)

\* C24: an invitation that has become 'rejected' is never set to
\* 'accepted', and no step of an accept request adds the membership row
\* for an invitation that is 'rejected', whatever accept and reject
\* requests of the invitee interleave.
RejectedStaysRejected ==
    [][/\ \A row \in invitations :
             row.status = "rejected"
             => StatusIn(invitations', row.id) # "accepted"
       /\ \A r \in Slots :
             (/\ reqs[r].kind = "accept"
              /\ reqs'[r] # reqs[r]
              /\ RowsIn(project_members', reqs[r].project, reqs[r].user)
                    \ project_members # {})
             => StatusIn(invitations, reqs[r].inv) # "rejected"
      ]_vars

----------------------------------------------------------------------------
(* Properties of the two implementations side by side                      *)

\* the request kind the server uses for a DataService operation
RouteOf(op) ==
    CASE op = "createTask" -> "postTask"
      [] op = "updateTask" -> "putTask"
      [] op = "deleteTask" -> "deleteTask"
      [] op = "createInvitation" -> "invite"
      [] op = "removeMember" -> "deleteMember"
      [] OTHER -> "idle"

\* the outcomes of a DataService call that passed its permission check
ClientAllowed == {"value", "true", "throw:duplicate"}

\* the answers with which a route refuses the caller
ServerDenied(kind) == IF kind = "deleteMember" THEN {400, 403} ELSE {403}

\* C25: when one operation (create task, update task, delete task, create
\* invitation, remove member) of one actor is put to the DataService and
\* to the server in states that store the same owner, members, settings
\* and assignee, both allow it or both refuse it.
PermissionRulesAgree ==
    [][\A kind \in {"postTask", "putTask", "deleteTask", "invite", "deleteMember"} :
          (/\ Quiet
           /\ RouteOf(dsRet'.op) = kind
           /\ (resp'.kind = kind \/ \E r \in Slots : reqs'[r].kind = kind))
          => ((dsRet'.result \in ClientAllowed)
                 <=> ~(resp'.kind = kind /\ resp'.status \in ServerDenied(kind)))
      ]_vars

----------------------------------------------------------------------------
(* Properties of tasks and membership on the server                        *)

\* C26: in every state each task's assignee_id is null or the id of the
\* owner or of a current member of the task's project.
AssigneeIsMember ==
    \A row \in tasks :
        row.assignee_id = None \/ RowMayView(row.project_id, row.assignee_id)

\* C27: a PUT /tasks/:id of a user who is neither the owner nor a member
\* of the task's project when the request is made - in particular a user
\* the owner has removed - is refused and leaves the task as it was, also
\* when the user is the task's assignee.
OutsiderNeverEditsTask ==
    [][/\ \A r \in Slots :
             (Free(r) /\ reqs'[r].kind = "putTask")
             => \E row \in tasks : /\ row.id = reqs'[r].task
                                   /\ RowMayView(row.project_id, reqs'[r].user)
       /\ \A row \in tasks :
             (/\ resp'.kind = "putTask" /\ resp'.task = row.id
              /\ reqs' = reqs
              /\ ~RowMayView(row.project_id, resp'.user))
             => (resp'.status \in {403, 404} /\ tasks' = tasks)
      ]_vars

\* a user the owner has removed from the project edits a task assigned to
\* them
RemovedAssigneeEdits ==
    \E r \in Slots :
        /\ reqs[r].kind = "putTask" /\ reqs[r].pc = "update"
        /\ ~RowMayView(reqs[r].project, reqs[r].user)
        /\ \E row \in invitations : /\ row.status = "accepted"
                                    /\ row.invitee_email = emailOf(reqs[r].user)

\* C28: when POST /invitations has answered with a failure, no invitation
\* row that request inserted is stored.
FailedInviteLeavesNoRow ==
    (resp.kind = "invite" /\ resp.status # 201)
    => \A row \in invitations : row.id # resp.inv

\* C29: a project update changes only what the request names: a settings
\* object that carries some of the three flags leaves every flag it does not
\* carry at its stored value, through PUT /projects/:id and through
\* DataService.updateProject, and an update without settings keeps them all.
UpdateKeepsUnnamedFlags ==
    [][/\ \A r \in Slots :
             (/\ reqs[r].kind = "putProject" /\ reqs[r].pc = "update"
              /\ resp'.kind = "putProject" /\ resp'.status = 200
              /\ Free(r)')
             => \A row \in projects :
                   row.id = reqs[r].project
                   => \E after \in projects' :
                         /\ after.id = row.id
                         /\ \A k \in (DOMAIN row.settings)
                                       \ (DOMAIN reqs[r].settings) :
                               /\ k \in DOMAIN after.settings
                               /\ after.settings[k] = row.settings[k]
       /\ (dsRet'.op = "updateProject" /\ dsRet'.result = "value")
          => \A i \in DOMAIN lsProjects :
                lsProjects[i].projectId = dsRet'.id
                => \A k \in DOMAIN lsProjects[i].settings :
                      \/ /\ k \in DOMAIN lsProjects'[i].settings
                         /\ lsProjects'[i].settings[k]
                               = lsProjects[i].settings[k]
                      \/ \E updates \in ProjectUpdateInputs :
                            /\ "settings" \in updates.has
                            /\ k \in DOMAIN updates.settings
                            /\ lsProjects'[i].settings = updates.settings
      ]_vars

\* C30: DataService.updateTask keeps the task's taskId and projectId: after
\* a call that returned the updated task, the stored task at the same place
\* carries the id the caller named and the projectId it had before.
UpdateTaskKeepsIds ==
    [][(dsRet'.op = "updateTask" /\ dsRet'.result = "value")
       => \A i \in DOMAIN lsTasks :
             lsTasks[i].taskId = dsRet'.id
             => /\ i \in DOMAIN lsTasks'
                /\ lsTasks'[i].taskId = lsTasks[i].taskId
                /\ lsTasks'[i].projectId = lsTasks[i].projectId
      ]_vars

====
